---- MODULE Spec2Model ----
(***************************************************************************)
(* The grid engine of pygame_2048 (src/utils/grid.py, class Grid) as a     *)
(* state machine: the board, the score and the two configuration fields,   *)
(* with one action per public operation of Grid.                           *)
(*                                                                         *)
(* A cell is a 16-bit signed integer (dtype=np.int16), so the doubling of  *)
(* a cell wraps (Int16).                                                   *)
(*                                                                         *)
(* The evaluator of the bot (src/mcts_bot/monte_carlo.py, class            *)
(* MonteCarloTreeSearch) works on copies of the Grid; its call is modelled *)
(* with the copies as objects of their own.                                *)
(*                                                                         *)
(* Every random draw goes to the process-wide generator of np.random.  Its *)
(* state is the stream it was seeded with and the number of calls made on  *)
(* it; a behaviour either follows the generators or leaves them            *)
(* unobserved (Untracked).                                                 *)
(***************************************************************************)
EXTENDS Integers, Sequences, FiniteSets, TLC

VARIABLES grid, score, grid_size, max_tile, op, ret, before, moves, spawned,
          requested,
          pc, asynchronous, grids_lists, clones, scores, delivered, chosen, last,
          rng, workers, rng_start,
          env, sim, game

\* the generators of np.random: rng is that of the calling process, workers
\* those of the processes of the pool, rng_start[i + 1] the state of the
\* generator the search of candidate i began to draw from
generators == <<rng, workers, rng_start>>

\* the state of one call of the evaluator (MonteCarloTreeSearch.__call__)
evaluator == <<pc, asynchronous, grids_lists, clones, scores, delivered, chosen, last,
               generators>>

vars == <<grid, score, grid_size, max_tile, op, ret, before, moves, spawned,
          requested, evaluator, env, sim, game>>

(***************************************************************************)
(* Configuration of Grid.__init__ and the bounds of the model.             *)
(***************************************************************************)
GridSize == 4
MaxTile == 2048

\* number of move calls explored in one behaviour
MaxMoves == 2
\* number of tiles asked of generate_twos in one behaviour
MaxSpawned == 3
\* largest number_of_twos passed to one generate_twos call
MaxTwos == 2
\* boards the move operations are applied to: at most MaxInitTiles tiles,
\* each 2^k with 1 <= k <= MaxExp
MaxInitTiles == 2
MaxExp == 2
\* cells overwritten in the full board the crowded boards are made from
MaxAltered == 1
\* searches_per_move and moves_per_search of the evaluator
SearchesPerMove == 2
MovesPerSearch == 1
\* grid_size and max_tile of the Grid the bot plays a whole game on
BotGridSize == 2
BotMaxTile == 16

\* MonteCarloTreeSearch.number_of_moves
number_of_moves == 4

\* Env2048.max_steps, max_illegal_moves and illegal_move_reward (0.0)
max_steps == 10000
max_illegal_moves == 10
illegal_move_reward == 0

(***************************************************************************)
(* Direction (src/utils/grid.py:10-18) and MoveDirection (21-28).          *)
(***************************************************************************)
LEFT == 1
RIGHT == -1

UP_KEY == "w"
DOWN_KEY == "s"
LEFT_KEY == "a"
RIGHT_KEY == "d"

(***************************************************************************)
(* Helpers on boards.  A board is a sequence of n rows, each a sequence of *)
(* n cells; rows and columns are numbered from 1, so grid[i][j] here is    *)
(* self.grid[i - 1, j - 1] of the source.                                  *)
(***************************************************************************)
Idx(n) == 1 .. n

\* the value of an expression computed once: the element of a one-element set
TheOne(S) == CHOOSE x \in S : TRUE

\* the sequence <<F(1), ..., F(n)>>, as a tuple
Build(F(_), n) == [k \in 1 .. n |-> F(k)] \o <<>>

\* the n x n board whose cell (i, j) is F(i, j)
Table(F(_, _), n) == Build(LAMBDA i : Build(LAMBDA j : F(i, j), n), n)

\* np.zeros((grid_size, grid_size), dtype=np.int16)
zeros(n) == Table(LAMBDA i, j : 0, n)

\* a value stored in an int16 cell: two's complement wrap-around
Int16(x) == LET m == x % 65536 IN IF m >= 32768 THEN m - 65536 ELSE m

\* the cells of g in row-major order (the order of numpy boolean indexing)
RECURSIVE Flat(_)
Flat(g) == IF g = <<>> THEN <<>> ELSE g[1] \o Flat(Tail(g))

RECURSIVE SeqSum(_)
SeqSum(s) == IF s = <<>> THEN 0 ELSE s[1] + SeqSum(Tail(s))

\* self.grid.sum()
grid_sum(g) == SeqSum(Flat(g))

\* the number of True cells of a sequence of booleans
CountTrue(s) == Len(SelectSeq(s, LAMBDA b : b))

\* self.grid[i, j] = v
setitem(g, i, j, v) == [g EXCEPT ![i][j] = v]

(***************************************************************************)
(* Grid.shift_grid: the mask of nonzero cells, a mask with as many True    *)
(* per row packed to the right, flipped for LEFT, and the boolean-mask     *)
(* assignment grid[flipped_mask] = grid[mask] (the k-th True cell of       *)
(* flipped_mask, in row-major order, receives the k-th nonzero value),     *)
(* then grid[~flipped_mask] = 0.                                           *)
(***************************************************************************)
\* shift_grid handing the values out from the last to the first
shift_grid_backwards(g, n, direction) ==
    LET bmask == Table(LAMBDA i, j : g[i][j] # 0, n)
        browcount == Build(LAMBDA i : CountTrue(bmask[i]), n)
        bright == Table(LAMBDA i, j : browcount[i] > n - j, n)
        bflipped == IF -direction = -1
                    THEN Table(LAMBDA i, j : bright[i][n + 1 - j], n)
                    ELSE bright
        bvalues == SelectSeq(Flat(g), LAMBDA v : v # 0)
        bflat == Flat(bflipped)
        brank(i, j) == CountTrue(SubSeq(bflat, 1, (i - 1) * n + j))
    IN  Table(LAMBDA i, j : IF bflipped[i][j]
                            THEN bvalues[Len(bvalues) + 1 - brank(i, j)] ELSE 0, n)

shift_grid(g, n, direction) ==
    LET mask == Table(LAMBDA i, j : g[i][j] # 0, n)
        rowcount == Build(LAMBDA i : CountTrue(mask[i]), n)
        \* mask.sum(1, keepdims=True) > np.arange(n - 1, -1, -1)
        right_mask == Table(LAMBDA i, j : rowcount[i] > n - j, n)
        \* [:, ::-direction.value]
        flipped_mask == IF -direction = -1
                        THEN Table(LAMBDA i, j : right_mask[i][n + 1 - j], n)
                        ELSE right_mask
        values == SelectSeq(Flat(g), LAMBDA v : v # 0)
        flat_mask == Flat(flipped_mask)
        \* how many True cells of flipped_mask come up to cell (i, j)
        rank(i, j) == CountTrue(SubSeq(flat_mask, 1, (i - 1) * n + j))
    IN  Table(LAMBDA i, j : IF flipped_mask[i][j] THEN values[rank(i, j)] ELSE 0, n)

shift_left(g, n) == shift_grid(g, n, LEFT)

shift_right(g, n) == shift_grid(g, n, RIGHT)

(***************************************************************************)
(* np.rot90(grid) and np.rot90(grid, k=3).                                 *)
(***************************************************************************)
\* rotate_left turning clockwise, as np.rot90(self.grid, k=3) would
rotate_left_clockwise(g, n) == Table(LAMBDA i, j : g[n + 1 - j][i], n)

rotate_left(g, n) == Table(LAMBDA i, j : g[j][n + 1 - i], n)

rotate_right(g, n) == Table(LAMBDA i, j : g[n + 1 - j][i], n)

(***************************************************************************)
(* Grid.merge_same_neighbours: the double loop, cell by cell, on the       *)
(* board and the score as they are updated in place.                       *)
(***************************************************************************)
\* range(n - 1) for LEFT, range(n - 1, 0, -1) for RIGHT (columns from 1)
y_range(n, direction) ==
    IF direction = LEFT THEN Build(LAMBDA k : k, n - 1)
                        ELSE Build(LAMBDA k : n + 1 - k, n - 1)

\* merge_cell with the sum stored in the neighbour and cell (i, j) cleared
merge_cell_into_neighbour(st, i, j, direction) ==
    IF st.grid[i][j] = st.grid[i][j + direction] /\ st.grid[i][j] # 0
    THEN LET doubled == Int16(st.grid[i][j] * 2)
         IN  [grid  |-> [st.grid EXCEPT ![i][j] = 0,
                                        ![i][j + direction] = doubled],
              score |-> st.score + doubled]
    ELSE st

\* merge_cell with the score raised before the cell is doubled
merge_cell_score_first(st, i, j, direction) ==
    IF st.grid[i][j] = st.grid[i][j + direction] /\ st.grid[i][j] # 0
    THEN [grid  |-> [st.grid EXCEPT ![i][j] = Int16(st.grid[i][j] * 2),
                                    ![i][j + direction] = 0],
          score |-> st.score + st.grid[i][j]]
    ELSE st

\* merge_cell with self.score -= self.grid[i, j]
merge_cell_score_down(st, i, j, direction) ==
    IF st.grid[i][j] = st.grid[i][j + direction] /\ st.grid[i][j] # 0
    THEN LET doubled == Int16(st.grid[i][j] * 2)
         IN  [grid  |-> [st.grid EXCEPT ![i][j] = doubled,
                                        ![i][j + direction] = 0],
              score |-> st.score - doubled]
    ELSE st

\* merge_cell with self.grid[i, j] += 2
merge_cell_plus_two(st, i, j, direction) ==
    IF st.grid[i][j] = st.grid[i][j + direction] /\ st.grid[i][j] # 0
    THEN LET raised == Int16(st.grid[i][j] + 2)
         IN  [grid  |-> [st.grid EXCEPT ![i][j] = raised,
                                        ![i][j + direction] = 0],
              score |-> st.score + raised]
    ELSE st

\* merge_cell without self.grid[i, j + direction.value] = 0
merge_cell_keeps_neighbour(st, i, j, direction) ==
    IF st.grid[i][j] = st.grid[i][j + direction] /\ st.grid[i][j] # 0
    THEN LET doubled == Int16(st.grid[i][j] * 2)
         IN  [grid  |-> [st.grid EXCEPT ![i][j] = doubled],
              score |-> st.score + doubled]
    ELSE st

\* the body of the inner loop at cell (i, j); st = [grid, score]
merge_cell(st, i, j, direction) ==
    IF st.grid[i][j] = st.grid[i][j + direction] /\ st.grid[i][j] # 0
    THEN LET doubled == Int16(st.grid[i][j] * 2)
         IN  [grid  |-> [st.grid EXCEPT ![i][j] = doubled,
                                        ![i][j + direction] = 0],
              score |-> st.score + doubled]
    ELSE st

\* the inner loop over the columns js of row i
RECURSIVE merge_row(_, _, _, _)
merge_row(st, i, js, direction) ==
    IF js = <<>> THEN st
    ELSE merge_row(merge_cell(st, i, js[1], direction), i, Tail(js), direction)

\* the outer loop over the rows i .. n
RECURSIVE merge_rows(_, _, _, _)
merge_rows(st, i, n, direction) ==
    IF i > n THEN st
    ELSE merge_rows(merge_row(st, i, y_range(n, direction), direction),
                    i + 1, n, direction)

merge_same_neighbours(g, s, n, direction) ==
    TheOne({ merge_rows(st, 1, n, direction) : st \in {[grid |-> g, score |-> s]} })

(***************************************************************************)
(* The four moves.  Each gives the board, the score and the returned       *)
(* validity (not np.array_equal(current_grid, self.grid)).                 *)
(***************************************************************************)
\* move_left without the second shift_left
move_left_one_shift(g, s, n) ==
    LET shifted1 == shift_left(g, n)
        merged1  == merge_same_neighbours(shifted1, s, n, LEFT)
    IN  [score |-> merged1.score, grid |-> merged1.grid, ret |-> g # merged1.grid]

\* move_left with current_grid = self.grid (no np.copy): the comparison is
\* of the board with itself
move_left_no_copy(g, s, n) ==
    LET shifted2 == shift_left(g, n)
        merged2  == merge_same_neighbours(shifted2, s, n, LEFT)
        packed2  == shift_left(merged2.grid, n)
    IN  [score |-> merged2.score, grid |-> packed2, ret |-> packed2 # packed2]

move_left(g, s, n) ==
    TheOne({ LET packed == shift_left(merged.grid, n)
             IN  [score |-> merged.score, grid |-> packed, ret |-> g # packed]
             : merged \in {merge_same_neighbours(shift_left(g, n), s, n, LEFT)} })

move_right(g, s, n) ==
    TheOne({ [score |-> rmerged.score, grid |-> rmerged.grid,
              ret |-> g # rmerged.grid]
             : rmerged \in {merge_same_neighbours(shift_right(g, n), s, n, RIGHT)} })

move_up(g, s, n) ==
    TheOne({ LET uback == rotate_right(umoved.grid, n)
             IN  [score |-> umoved.score, grid |-> uback, ret |-> g # uback]
             : umoved \in {move_left(rotate_left(g, n), s, n)} })

\* move_down returning what the inner move_left returned
move_down_inner_ret(g, s, n) ==
    LET drotated1 == rotate_left(g, n)
        dmoved1   == move_left(drotated1, s, n)
        dshifted1 == shift_right(dmoved1.grid, n)
        dback1    == rotate_right(dshifted1, n)
    IN  [score |-> dmoved1.score, grid |-> dback1, ret |-> dmoved1.ret]

move_down(g, s, n) ==
    TheOne({ LET dback == rotate_right(shift_right(dmoved.grid, n), n)
             IN  [score |-> dmoved.score, grid |-> dback, ret |-> g # dback]
             : dmoved \in {move_left(rotate_left(g, n), s, n)} })

\* Grid.move: self.move_map.get(direction, lambda *args: False)()
move(g, s, n, direction) ==
    CASE direction = UP_KEY    -> move_up(g, s, n)
      [] direction = DOWN_KEY  -> move_down(g, s, n)
      [] direction = LEFT_KEY  -> move_left(g, s, n)
      [] direction = RIGHT_KEY -> move_right(g, s, n)
      [] OTHER                 -> [grid |-> g, score |-> s, ret |-> FALSE]

\* the name of the method move_map gives for a key
move_map(direction) ==
    CASE direction = UP_KEY    -> "move_up"
      [] direction = DOWN_KEY  -> "move_down"
      [] direction = LEFT_KEY  -> "move_left"
      [] direction = RIGHT_KEY -> "move_right"
      [] OTHER                 -> "move"

(***************************************************************************)
(* Grid.is_win and Grid.is_lose.                                           *)
(***************************************************************************)
\* is_win that never sees the target
is_win_never(g, n, target) == FALSE

\* is_win with self.grid.max() >= self.max_tile
is_win_at_least(g, n, target) ==
    \E i \in Idx(n) : \E j \in Idx(n) : g[i][j] >= target

is_win(g, n, target) == \E i \in Idx(n) : \E j \in Idx(n) : g[i][j] = target

\* is_lose without the loop over the neighbours
is_lose_full_only(g, n) ==
    ~ \E i \in Idx(n) : \E j \in Idx(n) : g[i][j] = 0

\* is_lose comparing only the neighbours in a row
is_lose_rows_only(g, n) ==
    /\ ~ \E i \in Idx(n) : \E j \in Idx(n) : j # n /\ g[i][j] = g[i][j + 1]
    /\ ~ \E i \in Idx(n) : \E j \in Idx(n) : g[i][j] = 0

is_lose(g, n) ==
    /\ ~ \E i \in Idx(n) : \E j \in Idx(n) :
            \/ j # n /\ g[i][j] = g[i][j + 1]
            \/ i # n /\ g[i][j] = g[i + 1][j]
    /\ ~ \E i \in Idx(n) : \E j \in Idx(n) : g[i][j] = 0

(***************************************************************************)
(* Grid.generate_twos: the set of boards one call can produce.             *)
(* np.random.choice(range(e), number_of_twos, replace=False) draws an      *)
(* ordered sample of distinct empty cells, or raises ValueError (caught:   *)
(* the board is left as it is) when more are asked than there are.         *)
(***************************************************************************)
\* empty_cells over every cell of the board, np.where(self.grid >= 0)
empty_cells_any(g, n) == {c \in Idx(n) \X Idx(n) : g[c[1]][c[2]] >= 0}

empty_cells(g, n) == {c \in Idx(n) \X Idx(n) : g[c[1]][c[2]] = 0}

\* spawn_values with the 2 forced only on a board whose sum is 0
spawn_values_first_only(g) == IF grid_sum(g) = 0 THEN {2} ELSE {2, 4}

\* the values the next cell of the loop can receive
spawn_values(g) == IF grid_sum(g) \in {0, 2} THEN {2} ELSE {2, 4}

\* fill_cells drawing with replace=True: a cell can be drawn again
RECURSIVE fill_cells_with_replacement(_, _, _)
fill_cells_with_replacement(g, cells, k) ==
    IF k = 0 THEN {g}
    ELSE UNION { UNION { fill_cells_with_replacement(setitem(g, c[1], c[2], v),
                                                     cells, k - 1)
                         : v \in spawn_values(g) }
                 : c \in cells }

RECURSIVE fill_cells(_, _, _)
fill_cells(g, cells, k) ==
    IF k = 0 THEN {g}
    ELSE UNION { UNION { fill_cells(setitem(g, c[1], c[2], v), cells \ {c}, k - 1)
                         : v \in spawn_values(g) }
                 : c \in cells }

\* generate_twos filling what is empty when more is asked than there is
generate_twos_fill_rest(g, n, number_of_twos) ==
    LET e == Cardinality(empty_cells(g, n))
    IN  IF number_of_twos < 0 THEN {g}
        ELSE fill_cells(g, empty_cells(g, n),
                        IF number_of_twos > e THEN e ELSE number_of_twos)

generate_twos(g, n, number_of_twos) ==
    IF number_of_twos < 0 \/ number_of_twos > Cardinality(empty_cells(g, n))
    THEN {g}
    ELSE fill_cells(g, empty_cells(g, n), number_of_twos)

(***************************************************************************)
(* The evaluator, src/mcts_bot/monte_carlo.py.  A Grid object is a record  *)
(* of its four fields.  The random draws of a search (the moves picked by  *)
(* make_random_move, the cells and values of generate_twos) are inputs, so *)
(* a search is the set of the results it can have.  A result carries the   *)
(* fields the Grid is left with, the value returned (ret), whether the     *)
(* first move was valid, and two counters read by the properties: steps,   *)
(* the calls of make_random_move, and spawns, the calls of generate_twos.  *)
(***************************************************************************)
GridObject(g, s, n, target) ==
    [grid |-> g, score |-> s, grid_size |-> n, max_tile |-> target]

\* get_moves_list: list(search_grid.move_map.values()), in insertion order
get_moves_list == <<UP_KEY, DOWN_KEY, LEFT_KEY, RIGHT_KEY>>

\* search_moves[move_index]() on the Grid obj; move_index counts from 0
call_move(obj, move_index) ==
    move(obj.grid, obj.score, obj.grid_size, get_moves_list[move_index + 1])

\* the Grid objects one generate_twos(number_of_twos=1) can leave
spawn_one(obj, m) ==
    { [obj EXCEPT !.grid = g, !.score = m.score]
        : g \in generate_twos(m.grid, obj.grid_size, 1) }

\* the calls of np.random one generate_twos(number_of_twos=1) makes on the
\* board g: none when no cell is empty (choice raises first), one for the
\* cell, one more for the value unless the sum of the board forces a 2
spawn_draws(g, n) ==
    IF Cardinality(empty_cells(g, n)) = 0 THEN 0
    ELSE IF grid_sum(g) \in {0, 2} THEN 1 ELSE 2

\* the inner loop: at most k further passes of "for _ in range(moves_per_search)";
\* m is what make_random_move returned for the move it drew
RECURSIVE rollout(_, _)
rollout(obj, k) ==
    IF \/ k = 0
       \/ is_win(obj.grid, obj.grid_size, obj.max_tile)
       \/ is_lose(obj.grid, obj.grid_size)
    THEN {[obj |-> obj, steps |-> 0, spawns |-> 0, draws |-> 0]}
    ELSE UNION { UNION {
           IF m.ret
           THEN UNION { UNION { {[obj |-> r.obj, steps |-> r.steps + 1,
                                  spawns |-> r.spawns + 1, draws |-> r.draws + d]
                                   : r \in rollout(o, k - 1)}
                                : o \in spawn_one(obj, m) }
                        : d \in {1 + spawn_draws(m.grid, obj.grid_size)} }
           ELSE {[obj |-> r.obj, steps |-> r.steps + 1,
                  spawns |-> r.spawns, draws |-> r.draws + 1]
                   : r \in rollout([obj EXCEPT !.grid = m.grid,
                                               !.score = m.score], k - 1)}
           : m \in {call_move(obj, move_index)} }
           : move_index \in 0 .. 3 }

\* the board and score a simulation starts from or a search saved
Saved(obj) == [grid |-> obj.grid, score |-> obj.score]

\* no simulation was started: nothing was saved
NoSnapshot == [grid |-> <<>>, score |-> 0]

\* what a result adds to search_score, to the counters and to the record of
\* the simulations
totals(x) ==
    [ret |-> x.ret, steps |-> x.steps, spawns |-> x.spawns, draws |-> x.draws,
     starts |-> x.starts, finals |-> x.finals]

\* lines 111-112 left out: the simulation goes on from the board and score
\* the one before it ended with
restore_nothing(obj, current) == obj

\* lines 111-112: search_grid.grid = np.copy(current_grid) and
\* search_grid.score = current_score
restore(obj, current) == [obj EXCEPT !.grid = current.grid, !.score = current.score]

\* line 119 as "search_score = search_grid.score"
add_score_last_only(search_score, obj) == obj.score

\* line 119: search_score += search_grid.score
add_score(search_score, obj) == search_score + obj.score

\* the outer loop: k passes of "for _ in range(searches_per_move)" on the
\* Grid obj, each restarted from current (current_grid and current_score);
\* the object is left as the last pass leaves it.  starts are the states
\* the passes began with, finals the scores they ended with.
RECURSIVE run_searches(_, _, _, _)
run_searches(obj, current, k, moves_per_search) ==
    IF k = 0
    THEN {[obj |-> obj, ret |-> 0, steps |-> 0, spawns |-> 0, draws |-> 0,
           starts |-> {}, finals |-> <<>>]}
    ELSE UNION { UNION { UNION {
           { [obj    |-> r.obj,
              ret    |-> add_score(e.ret, r.obj),
              steps  |-> e.steps + r.steps,
              spawns |-> e.spawns + r.spawns,
              draws  |-> e.draws + r.draws,
              starts |-> e.starts \cup {Saved(st)},
              finals |-> Append(e.finals, r.obj.score)]
             : <<e, r>> \in {totals(x) : x \in {y \in earlier :
                                                  restore(y.obj, current) = st}}
                            \X results }
           : results \in {rollout(st, moves_per_search)} }
           : st \in {restore(x.obj, current) : x \in earlier} }
           : earlier \in {run_searches(obj, current, k - 1, moves_per_search)} }

\* search_for_one_move without "if not is_valid: return 0"
search_for_one_move_unchecked(search_grid, move_index, searches_per_move, moves_per_search) ==
    UNION { UNION { UNION { {[obj |-> r.obj, ret |-> r.ret, valid |-> first.ret,
                      steps |-> r.steps, spawns |-> r.spawns + 1,
                      draws |-> r.draws + d, snapshot |-> Saved(current),
                      starts |-> r.starts, finals |-> r.finals]
                       : r \in run_searches(current, Saved(current),
                                            searches_per_move, moves_per_search)}
                    : current \in spawn_one(search_grid, first) }
            : d \in {spawn_draws(first.grid, search_grid.grid_size)} }
            : first \in {call_move(search_grid, move_index)} }

\* MonteCarloTreeSearch.search_for_one_move; first is what
\* search_moves[move_index]() returned, current the Grid after line 107,
\* whose board and score lines 108-109 save
search_for_one_move(search_grid, move_index, searches_per_move, moves_per_search) ==
    UNION {
        IF ~ first.ret
        THEN {[obj |-> [search_grid EXCEPT !.grid = first.grid, !.score = first.score],
               ret |-> 0, valid |-> FALSE, steps |-> 0, spawns |-> 0, draws |-> 0,
               snapshot |-> NoSnapshot, starts |-> {}, finals |-> <<>>]}
        ELSE UNION { UNION { {[obj |-> r.obj, ret |-> r.ret, valid |-> TRUE,
                       steps |-> r.steps, spawns |-> r.spawns + 1,
                       draws |-> r.draws + d, snapshot |-> Saved(current),
                       starts |-> r.starts, finals |-> r.finals]
                        : r \in run_searches(current, Saved(current),
                                             searches_per_move, moves_per_search)}
                     : current \in spawn_one(search_grid, first) }
                     : d \in {spawn_draws(first.grid, search_grid.grid_size)} }
        : first \in {call_move(search_grid, move_index)} }

\* argmax giving the last index of a largest entry
argmax_last(xs) ==
    CHOOSE i \in 0 .. (Len(xs) - 1) :
        /\ \A j \in 0 .. (Len(xs) - 1) : xs[j + 1] <= xs[i + 1]
        /\ \A j \in (i + 1) .. (Len(xs) - 1) : xs[j + 1] < xs[i + 1]

\* np.argmax(scores): the first index, counted from 0, of a largest entry
argmax(xs) ==
    CHOOSE i \in 0 .. (Len(xs) - 1) :
        /\ \A j \in 0 .. (Len(xs) - 1) : xs[j + 1] <= xs[i + 1]
        /\ \A j \in 0 .. (i - 1) : xs[j + 1] < xs[i + 1]

\* grids_lists = [self.grid for _ in range(self.number_of_moves)]: every
\* entry names the Grid of the caller
shared_ref(k) == 0

\* grids_lists = [copy.deepcopy(self.grid)] * self.number_of_moves: one copy,
\* named by every entry
single_copy_ref(k) == 1

\* the reference copy.deepcopy(self.grid) gives for entry k of grids_lists
deepcopy_ref(k) == k

\* line 135: grids_lists
make_grids_lists == [k \in 1 .. number_of_moves |-> deepcopy_ref(k)] \o <<>>

\* the objects of a call on the Grid self_grid, by reference: entry 1 is
\* the Grid of the caller (reference 0), entry k + 1 the k-th copy
make_heap(self_grid) == <<self_grid>> \o [k \in 1 .. number_of_moves |-> self_grid]

\* lines 142-144: the lists scores the loop can build from candidate i on;
\* a search leaves its moves and spawns in the object its reference names,
\* where a later candidate with the same reference finds them
RECURSIVE sequential_scores(_, _, _)
sequential_scores(heap, refs, i) ==
    IF i = number_of_moves
    THEN {<<>>}
    ELSE UNION { UNION {
           { <<x.ret>> \o rest : rest \in sequential_scores(x.heap, refs, i + 1) }
           : x \in { [ret  |-> out.ret,
                      heap |-> IF \E j \in (i + 2) .. number_of_moves : refs[j] = ref
                               THEN [heap EXCEPT ![ref + 1] = out.obj]
                               ELSE heap]
                     : out \in search_for_one_move(heap[ref + 1], i, SearchesPerMove,
                                                   MovesPerSearch) } }
           : ref \in {refs[i + 1]} }

\* the pool as imap_unordered: the results in the order the tasks ended
parallel_scores_unordered(heap, refs) ==
    LET task(i) == { out.ret : out \in search_for_one_move(heap[refs[i + 1] + 1], i,
                                                          SearchesPerMove, MovesPerSearch) }
    IN  { <<v[p[1]], v[p[2]], v[p[3]], v[p[4]]>>
            : <<v, p>> \in (task(0) \X task(1) \X task(2) \X task(3))
                           \X Permutations(1 .. number_of_moves) }

\* lines 138-140: the lists pool.starmap can return; task i works in a
\* worker process on a pickled copy of the object its reference names, and
\* its result is entry i of the list whenever it ends
parallel_scores(heap, refs) ==
    LET task(i) == { out.ret : out \in search_for_one_move(heap[refs[i + 1] + 1], i,
                                                          SearchesPerMove, MovesPerSearch) }
    IN  { <<a, b, c, d>> : <<a, b, c, d>> \in task(0) \X task(1) \X task(2) \X task(3) }

\* MonteCarloTreeSearch.__call__ as a function of the Grid and the mode: the
\* indices line 145 can return
call_results(self_grid, mode) ==
    { argmax(v) : v \in IF mode
                        THEN parallel_scores(make_heap(self_grid), make_grids_lists)
                        ELSE sequential_scores(make_heap(self_grid), make_grids_lists, 0) }

(***************************************************************************)
(* The generator of np.random.  No line of the sources seeds it: a process *)
(* has the generator it was started with.                                  *)
(***************************************************************************)
\* a stream is named by the process that seeded it: 0 is the caller, which
\* seeded its generator when it imported numpy, w > 0 the w-th worker
\* the generator of a behaviour that does not follow it
Untracked == [stream |-> -1, calls |-> 0]

\* the generator of the calling process before its first call
Seeded == [stream |-> 0, calls |-> 0]

\* no search has begun
Unstarted == [stream |-> -2, calls |-> 0]

\* how Pool starts its processes: by forking the caller, or as new
\* interpreters that import numpy themselves
StartMethods == {"fork", "spawn"}

\* line 138, Pool(processes=self.number_of_moves): the generators of the
\* worker processes; a forked process has a copy of the memory of the
\* caller, its generator included
pool_generators(caller, start_method) ==
    [w \in 1 .. number_of_moves |->
        IF caller = Untracked THEN Untracked
        ELSE IF start_method = "fork" THEN caller
        ELSE [stream |-> w, calls |-> 0]] \o <<>>

\* the processes that can take the next task from the queue.  The
\* processes differ only in what they have drawn, so of those that have
\* drawn nothing yet one stands for all.
takers(pool, caller) ==
    LET drawn == {w \in 1 .. Len(pool) : pool[w] # caller /\ pool[w].calls > 0}
        fresh == (1 .. Len(pool)) \ drawn
    IN  drawn \cup {w \in fresh : \A v \in fresh : w <= v}

\* the generator after n more calls of np.random
advance(generator, n) ==
    IF generator = Untracked THEN Untracked ELSE [generator EXCEPT !.calls = @ + n]

(***************************************************************************)
(* The environment, src/rl_bot/envs/env_2048.py, class Env2048: the Grid   *)
(* it owns and its counters.  A step gives the fields of the Grid and the  *)
(* counters after it with the reward, done and info['is_valid'] returned.  *)
(***************************************************************************)
\* step with the illegal branch deciding done by the two limits alone
env_step_done_by_limits(g, s, n, target, e, action) ==
    LET m == move(g, s, n, action)
        steps == e.steps + 1
        illegal == e.num_illegal_moves + 1
    IN  IF m.ret
        THEN [grid |-> m.grid, score |-> m.score,
              env |-> [steps |-> steps, num_illegal_moves |-> e.num_illegal_moves,
                       reward |-> m.score,
                       done |-> is_win(m.grid, n, target) \/ is_lose(m.grid, n),
                       is_valid |-> TRUE]]
        ELSE [grid |-> m.grid, score |-> m.score,
              env |-> [steps |-> steps, num_illegal_moves |-> illegal,
                       reward |-> illegal_move_reward,
                       done |-> \/ steps > max_steps
                                \/ illegal > max_illegal_moves,
                       is_valid |-> FALSE]]

\* Env2048.step, lines 102-121
env_step(g, s, n, target, e, action) ==
    LET m == move(g, s, n, action)
        steps == e.steps + 1
        illegal == e.num_illegal_moves + 1
    IN  IF m.ret
        THEN [grid |-> m.grid, score |-> m.score,
              env |-> [steps |-> steps, num_illegal_moves |-> e.num_illegal_moves,
                       reward |-> m.score,
                       done |-> is_win(m.grid, n, target) \/ is_lose(m.grid, n),
                       is_valid |-> TRUE]]
        ELSE [grid |-> m.grid, score |-> m.score,
              env |-> [steps |-> steps, num_illegal_moves |-> illegal,
                       reward |-> illegal_move_reward,
                       done |-> \/ steps > max_steps
                                \/ illegal > max_illegal_moves
                                \/ is_win(m.grid, n, target)
                                \/ is_lose(m.grid, n),
                       is_valid |-> FALSE]]

(***************************************************************************)
(* The state machine.  op, ret and before record the last operation, the   *)
(* value it returned and the fields of the Grid when it was called;        *)
(* requested is the number_of_twos of the last generate_twos call.         *)
(***************************************************************************)
Snapshot == [grid |-> grid, score |-> score,
             grid_size |-> grid_size, max_tile |-> max_tile]

MoveOps == {"move_left", "move_right", "move_up", "move_down"}

\* a released reference: the copy it named is no longer reachable
Freed == [grid |-> <<>>, score |-> 0, grid_size |-> 0, max_tile |-> 0]

\* no call of the evaluator is under way
CallIdle ==
    /\ pc = "idle"
    /\ asynchronous = FALSE
    /\ grids_lists = <<>>
    /\ clones = <<>>
    /\ scores = <<>>
    /\ delivered = {}
    /\ chosen = 0
    /\ last = [index |-> 0, valid |-> FALSE, ret |-> 0, steps |-> 0, spawns |-> 0,
               changed |-> FALSE, snapshot |-> NoSnapshot, starts |-> {},
               finals |-> <<>>]
    /\ workers = <<>>
    /\ rng_start = <<>>

\* Env2048.__init__, lines 53-57, with the values the last step returned
EnvNew == [steps |-> 0, num_illegal_moves |-> 0, reward |-> 0, done |-> FALSE,
           is_valid |-> TRUE]

\* no search is followed step by step
SimIdle == [at |-> "idle"]

\* Game.__init__: best_score, and what the last update_grid did; no game
\* is over
GameNew == [best_score |-> 0, over |-> FALSE, asked |-> FALSE, checked |-> FALSE]

\* no call is under way and the generators are not followed
EvaluatorIdle ==
    /\ CallIdle
    /\ rng = Untracked
    /\ env = EnvNew
    /\ sim = SimIdle
    /\ game = GameNew

\* Grid.__init__
Init ==
    /\ grid_size = GridSize
    /\ max_tile = MaxTile
    /\ grid = zeros(GridSize)
    /\ score = 0
    /\ op = "init"
    /\ ret = FALSE
    /\ before = [grid |-> zeros(GridSize), score |-> 0,
                 grid_size |-> GridSize, max_tile |-> MaxTile]
    /\ moves = 0
    /\ spawned = 0
    /\ requested = 0
    /\ EvaluatorIdle

Apply(name, m) ==
    /\ grid' = m.grid
    /\ score' = m.score
    /\ ret' = m.ret
    /\ op' = name
    /\ before' = Snapshot
    /\ moves' = moves + 1
    /\ UNCHANGED <<game, env, sim, grid_size, max_tile, spawned, requested, evaluator>>

\* the four keys of move_map and one key that is not in it
Keys == {UP_KEY, DOWN_KEY, LEFT_KEY, RIGHT_KEY, "x"}

\* Grid.move(direction); a direct call of move_left, move_right, move_up or
\* move_down (the bot calls them through move_map.values()) is the move
\* with that method's key
Move ==
    /\ moves < MaxMoves
    /\ \E direction \in Keys :
          Apply(move_map(direction), move(grid, score, grid_size, direction))

GenerateTwos ==
    /\ spawned < MaxSpawned
    /\ \E number_of_twos \in 0 .. MaxTwos :
        /\ spawned + number_of_twos <= MaxSpawned
        /\ \E g \in generate_twos(grid, grid_size, number_of_twos) : grid' = g
        /\ op' = "generate_twos"
        /\ ret' = FALSE
        /\ before' = Snapshot
        /\ spawned' = spawned + number_of_twos
        /\ requested' = number_of_twos
        /\ UNCHANGED <<game, env, sim, score, grid_size, max_tile, moves, evaluator>>

\* Grid.reset
Reset ==
    /\ grid' = zeros(grid_size)
    /\ score' = 0
    /\ op' = "reset"
    /\ ret' = FALSE
    /\ before' = Snapshot
    /\ UNCHANGED <<game, env, sim, grid_size, max_tile, moves, spawned, requested, evaluator>>

Next ==
    \/ Move
    \/ GenerateTwos
    \/ Reset

Spec == Init /\ [][Next]_vars

(***************************************************************************)
(* The moves as functions of the board: a second specification that       *)
(* starts from any board of a bounded set and applies one move to it.      *)
(* A caller can put the Grid on any board (Grid.__setitem__, and the tests *)
(* assign grid.grid), with any score.                                      *)
(***************************************************************************)
Cells(n) == Idx(n) \X Idx(n)

TileValues == {2 ^ k : k \in 1 .. MaxExp}

\* the board holding f[c] in every cell c of the domain of f, 0 elsewhere
BoardOf(f, n) ==
    Table(LAMBDA i, j : IF <<i, j>> \in DOMAIN f THEN f[<<i, j>>] ELSE 0, n)

\* every board with at most MaxInitTiles tiles
SparseBoards(n) ==
    UNION { {BoardOf(f, n) : f \in [S -> TileValues]}
            : S \in {T \in SUBSET Cells(n) : Cardinality(T) <= MaxInitTiles} }

\* every board with one row, or one column, of any content and nothing else
LineBoards(n) ==
    UNION { { Table(LAMBDA i, j : IF i = r THEN line[j] ELSE 0, n),
              Table(LAMBDA i, j : IF j = r THEN line[i] ELSE 0, n) }
            : <<r, line>> \in Idx(n) \X [Idx(n) -> {0} \cup TileValues] }

\* src/test/test_grid.py:22-27
TestGrid == <<<<2, 0, 0, 4>>, <<0, 2, 0, 0>>, <<0, 2, 2, 0>>, <<0, 0, 0, 2>>>>

\* src/test/test_monte_carlo.py:34-39 and 74-79, and three full boards
DenseBoards ==
    { TestGrid,
      <<<<0, 2, 0, 0>>, <<0, 0, 0, 0>>, <<0, 0, 4, 2>>, <<2, 0, 0, 4>>>>,
      <<<<0, 0, 0, 0>>, <<0, 2, 2, 0>>, <<0, 2, 2, 0>>, <<0, 0, 0, 0>>>>,
      <<<<2, 2, 2, 2>>, <<2, 2, 2, 2>>, <<2, 2, 2, 2>>, <<2, 2, 2, 2>>>>,
      <<<<2, 4, 2, 4>>, <<4, 2, 4, 2>>, <<2, 4, 2, 4>>, <<4, 2, 4, 2>>>>,
      <<<<4, 2, 2, 8>>, <<2, 2, 4, 4>>, <<8, 8, 8, 2>>, <<2, 4, 4, 4>>>> }

InitBoards == SparseBoards(GridSize) \cup LineBoards(GridSize) \cup DenseBoards

InitBoard ==
    /\ grid_size = GridSize
    /\ max_tile = MaxTile
    /\ grid \in InitBoards
    /\ score \in {0, 20}
    /\ op = "init"
    /\ ret = FALSE
    /\ before = [grid |-> grid, score |-> score,
                 grid_size |-> GridSize, max_tile |-> MaxTile]
    /\ moves = MaxMoves - 1
    /\ spawned = 0
    /\ requested = 0
    /\ EvaluatorIdle

NextBoard == Move

SpecBoard == InitBoard /\ [][NextBoard]_vars

(***************************************************************************)
(* The queries and the spawn on crowded boards: a third specification      *)
(* that starts from a full board with no equal neighbours in which at most *)
(* MaxAltered cells were overwritten, or from one of a few boards written  *)
(* out, and calls is_win, is_lose and generate_twos.                       *)
(***************************************************************************)
\* Grid.is_win
IsWin ==
    /\ ret' = is_win(grid, grid_size, max_tile)
    /\ op' = "is_win"
    /\ before' = Snapshot
    /\ UNCHANGED <<game, env, sim, grid, score, grid_size, max_tile, moves, spawned, requested,
                   evaluator>>

\* Grid.is_lose
IsLose ==
    /\ ret' = is_lose(grid, grid_size)
    /\ op' = "is_lose"
    /\ before' = Snapshot
    /\ UNCHANGED <<game, env, sim, grid, score, grid_size, max_tile, moves, spawned, requested,
                   evaluator>>

\* a full board on which every two neighbours differ
StairBoard(n) == Table(LAMBDA i, j : 2 ^ (i + j - 1), n)

\* np.arange(1, n * n + 1).reshape((n, n)), src/test/test_grid.py:177-178
ArangeBoard(n) == Table(LAMBDA i, j : (i - 1) * n + j, n)

\* what a cell is overwritten with: emptied, a 2, the target
AlteredValues == {0, 2, MaxTile}

AlteredBoards(n, k) ==
    UNION { {[c \in Cells(n) |-> IF c \in S THEN f[c] ELSE StairBoard(n)[c[1]][c[2]]]
                : f \in [S -> AlteredValues]}
            : S \in {T \in SUBSET Cells(n) : Cardinality(T) <= k} }

CrowdedBoards(n) ==
    { Table(LAMBDA i, j : b[<<i, j>>], n) : b \in AlteredBoards(n, MaxAltered) }

WrittenBoards ==
    { zeros(GridSize),
      ArangeBoard(GridSize),
      TestGrid,
      <<<<0, 0, 0, 0>>, <<0, 0, 0, 0>>, <<0, 0, 0, 0>>, <<0, 0, 0, 2048>>>>,
      <<<<0, 0, 0, 0>>, <<0, 0, 0, 0>>, <<0, 0, 0, 0>>, <<0, 0, 1024, 4096>>>>,
      <<<<2, 4, 2, 4>>, <<4, 2, 4, 2>>, <<2, 4, 2, 4>>, <<4, 2, 0, 0>>>>,
      <<<<2, 4, 2, 4>>, <<4, 2, 4, 2>>, <<2, 4, 2, 0>>, <<4, 2, 0, 0>>>>,
      <<<<2, 2, 2, 2>>, <<2, 2, 2, 2>>, <<2, 2, 2, 2>>, <<2, 2, 2, 2>>>> }

InitCrowded ==
    /\ grid_size = GridSize
    /\ max_tile = MaxTile
    /\ grid \in CrowdedBoards(GridSize) \cup WrittenBoards
    /\ score \in {0, 20}
    /\ op = "init"
    /\ ret = FALSE
    /\ before = [grid |-> grid, score |-> score,
                 grid_size |-> GridSize, max_tile |-> MaxTile]
    /\ moves = MaxMoves
    /\ spawned = MaxSpawned - MaxTwos
    /\ requested = 0
    /\ EvaluatorIdle

NextCrowded ==
    \/ IsWin
    \/ IsLose
    \/ GenerateTwos

SpecCrowded == InitCrowded /\ [][NextCrowded]_vars

(***************************************************************************)
(* One call of the evaluator: a fourth specification.  grids_lists holds   *)
(* references: 0 is the Grid of the caller (self.grid, the variables grid  *)
(* and score), k > 0 is the k-th copy, clones[k].  A sequential search     *)
(* works on the object its reference names; a search of the pool works in  *)
(* another process on a pickled copy of it and only its result comes back. *)
(***************************************************************************)
Deref(ref) == IF ref = 0 THEN Snapshot ELSE clones[ref]

\* lines 135-137: the copies are made and the mode is read
Call ==
    /\ pc = "idle"
    /\ pc' = "searching"
    /\ \E mode \in BOOLEAN :
          /\ asynchronous' = mode
          /\ IF mode
             THEN \E start_method \in StartMethods :
                     workers' = pool_generators(rng, start_method)
             ELSE workers' = <<>>
    /\ rng_start' = [k \in 1 .. number_of_moves |-> Unstarted] \o <<>>
    /\ grids_lists' = make_grids_lists
    /\ clones' = [k \in 1 .. number_of_moves |-> Snapshot] \o <<>>
    /\ scores' = [k \in 1 .. number_of_moves |-> 0] \o <<>>
    /\ delivered' = {}
    /\ op' = "__call__"
    /\ ret' = FALSE
    /\ before' = Snapshot
    /\ UNCHANGED <<game, env, sim, grid, score, grid_size, max_tile, moves, spawned, requested,
                   chosen, last, rng>>

\* what a search that began with the object start leaves behind: the value
\* it returns, the record of its run and, where the object it worked on is
\* still named by a reference (kept), that object
outcomes(results, start, kept) ==
    { [ret |-> out.ret, draws |-> out.draws,
       obj |-> IF kept THEN out.obj ELSE Freed,
       record |-> [valid |-> out.valid, ret |-> out.ret,
                   steps |-> out.steps, spawns |-> out.spawns,
                   changed |-> out.obj.grid # start.grid,
                   snapshot |-> out.snapshot, starts |-> out.starts,
                   finals |-> out.finals]]
      : out \in results }

\* line 139 with the results kept in the order the tasks finish
Report_in_order_of_arrival(i, out) == /\ scores' = [scores EXCEPT ![Cardinality(delivered) + 1] = out.ret] /\ delivered' = delivered \cup {i} /\ last' = [index |-> i] @@ out.record

Report(i, out) ==
    /\ scores' = [scores EXCEPT ![i + 1] = out.ret]
    /\ delivered' = delivered \cup {i}
    /\ last' = [index |-> i] @@ out.record

\* lines 143-144: scores.append(self.search_for_one_move(grids_lists[i], i));
\* the search leaves its moves and spawns in the object it was given, and a
\* copy that no later entry of grids_lists names is released with them
SearchSequential ==
    /\ pc = "searching"
    /\ ~ asynchronous
    /\ Cardinality(delivered) < number_of_moves
    /\ \E i \in {Cardinality(delivered)} :
       \E ref \in {grids_lists[i + 1]} :
       \E start \in {Deref(ref)} :
       \E kept \in {ref = 0 \/ \E j \in (i + 2) .. number_of_moves :
                                  grids_lists[j] = ref} :
       \E out \in outcomes(search_for_one_move(start, i, SearchesPerMove,
                                               MovesPerSearch), start, kept) :
              /\ Report(i, out)
              /\ rng_start' = [rng_start EXCEPT ![i + 1] = rng]
              /\ rng' = advance(rng, out.draws)
              /\ IF ref = 0
                 THEN /\ grid' = out.obj.grid
                      /\ score' = out.obj.score
                      /\ clones' = clones
                 ELSE /\ clones' = [clones EXCEPT ![ref] = out.obj]
                      /\ UNCHANGED <<grid, score>>
    /\ UNCHANGED <<game, env, sim, grid_size, max_tile, op, ret, before, moves, spawned, requested,
                   pc, asynchronous, grids_lists, chosen, workers>>

\* lines 138-140: one task of pool.starmap, run by the worker process w
\* that took it from the queue, with the generator of that process, on the
\* copy of its arguments the process unpickled
SearchParallel ==
    /\ pc = "searching"
    /\ asynchronous
    /\ \E i \in (0 .. (number_of_moves - 1)) \ delivered :
       \E start \in {Deref(grids_lists[i + 1])} :
       \E out \in outcomes(search_for_one_move(start, i, SearchesPerMove,
                                               MovesPerSearch), start, FALSE) :
       \E w \in takers(workers, rng) :
              /\ Report(i, out)
              /\ rng_start' = [rng_start EXCEPT ![i + 1] = workers[w]]
              /\ workers' = [workers EXCEPT ![w] = advance(workers[w], out.draws)]
    /\ UNCHANGED <<game, env, sim, grid, score, grid_size, max_tile, op, ret, before, moves,
                   spawned, requested, pc, asynchronous, grids_lists, clones,
                   chosen, rng>>

\* line 145: return np.argmax(scores)
Return ==
    /\ pc = "searching"
    /\ delivered = 0 .. (number_of_moves - 1)
    /\ pc' = "returned"
    /\ chosen' = argmax(scores)
    /\ grids_lists' = <<>>
    /\ clones' = <<>>
    /\ workers' = <<>>
    /\ UNCHANGED <<game, env, sim, grid, score, grid_size, max_tile, op, ret, before, moves,
                   spawned, requested, asynchronous, scores, delivered, last,
                   rng, rng_start>>

\* the boards the evaluator is called on
SearchBoards ==
    { ArangeBoard(GridSize),
      <<<<2, 4, 2, 4>>, <<4, 2, 4, 2>>, <<2, 4, 2, 4>>, <<4, 2, 0, 0>>>>,
      <<<<2, 4, 8, 16>>, <<4, 8, 16, 32>>, <<8, 16, 32, 64>>, <<16, 32, 64, 64>>>>,
      <<<<2, 4, 8, 16>>, <<4, 8, 16, 32>>, <<8, 16, 32, 64>>, <<16, 32, 128, 0>>>>,
      <<<<2, 4, 8, 16>>, <<2, 8, 16, 32>>, <<8, 16, 32, 64>>, <<16, 32, 64, 128>>>>,
      <<<<4, 4, 8, 16>>, <<2, 8, 16, 32>>, <<2, 16, 32, 64>>, <<16, 32, 64, 128>>>>,
      <<<<2, 4, 8, 16>>, <<4, 8, 16, 32>>, <<8, 16, 1024, 1024>>, <<16, 32, 64, 128>>>> }

InitSearch ==
    /\ grid_size = GridSize
    /\ max_tile = MaxTile
    /\ grid \in SearchBoards
    /\ score \in {0, 20}
    /\ op = "init"
    /\ ret = FALSE
    /\ before = [grid |-> grid, score |-> score,
                 grid_size |-> GridSize, max_tile |-> MaxTile]
    /\ moves = MaxMoves
    /\ spawned = MaxSpawned
    /\ requested = 0
    /\ EvaluatorIdle

NextSearch ==
    \/ Call
    \/ SearchSequential
    \/ SearchParallel
    \/ Return

SpecSearch == InitSearch /\ [][NextSearch]_vars

(***************************************************************************)
(* The same call with the generators followed: a fifth specification.      *)
(***************************************************************************)
PoolBoards ==
    { <<<<2, 4, 2, 4>>, <<4, 2, 4, 2>>, <<2, 4, 2, 4>>, <<4, 2, 0, 0>>>> }

InitPool ==
    /\ grid_size = GridSize
    /\ max_tile = MaxTile
    /\ grid \in PoolBoards
    /\ score = 0
    /\ op = "init"
    /\ ret = FALSE
    /\ before = [grid |-> grid, score |-> score,
                 grid_size |-> GridSize, max_tile |-> MaxTile]
    /\ moves = MaxMoves
    /\ spawned = MaxSpawned
    /\ requested = 0
    /\ CallIdle
    /\ rng = Seeded
    /\ env = EnvNew
    /\ sim = SimIdle
    /\ game = GameNew

SpecPool == InitPool /\ [][NextSearch]_vars

(***************************************************************************)
(* A game played by the bot, the loop of test_bot in                       *)
(* src/test/test_monte_carlo.py, lines 95-103: a sixth specification, on a *)
(* Grid small enough for whole games.                                      *)
(***************************************************************************)
GameOver == is_win(grid, grid_size, max_tile) \/ is_lose(grid, grid_size)

\* where the loop of line 96 is about to test its condition
AtLoopTest == pc = "idle" /\ op \in {"generate_twos", "bot_move"}

\* line 95: self.grid.generate_twos(number_of_twos=2)
BotSetup ==
    /\ pc = "idle"
    /\ op = "init"
    /\ \E g \in generate_twos(grid, grid_size, 2) : grid' = g
    /\ op' = "generate_twos"
    /\ ret' = FALSE
    /\ before' = Snapshot
    /\ requested' = 2
    /\ UNCHANGED <<game, env, sim, score, grid_size, max_tile, moves, spawned, evaluator>>

\* lines 96-99, one pass of the loop: the game is not over, ind = self.bot()
\* with asynchronous at its default, search_move_list[ind]() and
\* generate_twos(number_of_twos=1), which is called whether the move was
\* valid or not
BotTurn ==
    /\ AtLoopTest
    /\ ~ GameOver
    /\ \E ind \in call_results(Snapshot, TRUE) :
       \E m \in {call_move(Snapshot, ind)} :
       \E g \in generate_twos(m.grid, grid_size, 1) :
          /\ chosen' = ind
          /\ grid' = g
          /\ score' = m.score
          /\ ret' = m.ret
    /\ op' = "bot_move"
    /\ before' = Snapshot
    /\ requested' = 1
    /\ UNCHANGED <<game, env, sim, grid_size, max_tile, moves, spawned, pc, asynchronous,
                   grids_lists, clones, scores, delivered, last, generators>>

\* line 96 with the game over: the loop is left and lines 102-103 assert
BotEnd ==
    /\ AtLoopTest
    /\ GameOver
    /\ op' = "game_over"
    /\ ret' = is_win(grid, grid_size, max_tile)
    /\ before' = Snapshot
    /\ UNCHANGED <<game, env, sim, grid, score, grid_size, max_tile, moves, spawned, requested,
                   evaluator>>

\* line 91: self.grid = Grid()
InitBot ==
    /\ grid_size = BotGridSize
    /\ max_tile = BotMaxTile
    /\ grid = zeros(BotGridSize)
    /\ score = 0
    /\ op = "init"
    /\ ret = FALSE
    /\ before = [grid |-> zeros(BotGridSize), score |-> 0,
                 grid_size |-> BotGridSize, max_tile |-> BotMaxTile]
    /\ moves = MaxMoves
    /\ spawned = MaxSpawned
    /\ requested = 0
    /\ EvaluatorIdle

NextBot ==
    \/ BotSetup
    \/ BotTurn
    \/ BotEnd

SpecBot == InitBot /\ [][NextBot]_vars

(***************************************************************************)
(* The environment: a seventh specification.  The Grid of a new Env2048 is *)
(* empty; the tests also assign a board to env.grid.grid before a step.    *)
(* A behaviour starts with a new environment or with one that has made     *)
(* max_illegal_moves - 1 steps with a key that is no direction.            *)
(***************************************************************************)
\* Env2048.step(action)
EnvStep ==
    /\ moves < MaxMoves
    /\ \E action \in Keys :
       \E r \in {env_step(grid, score, grid_size, max_tile, env, action)} :
          /\ grid' = r.grid
          /\ score' = r.score
          /\ env' = r.env
          /\ ret' = r.env.done
    /\ op' = "step"
    /\ before' = Snapshot
    /\ moves' = moves + 1
    /\ UNCHANGED <<game, sim, grid_size, max_tile, spawned, requested, evaluator>>

\* Env2048.reset, lines 137-142
EnvReset ==
    /\ spawned + 2 <= MaxSpawned
    /\ spawned' = spawned + 2
    /\ \E g \in generate_twos(zeros(grid_size), grid_size, 2) : grid' = g
    /\ score' = 0
    /\ env' = [steps |-> 0, num_illegal_moves |-> 0, reward |-> 0, done |-> FALSE,
               is_valid |-> TRUE]
    /\ op' = "env_reset"
    /\ ret' = FALSE
    /\ before' = Snapshot
    /\ requested' = 2
    /\ UNCHANGED <<game, sim, grid_size, max_tile, moves, evaluator>>

\* the counters after k steps that were all illegal, and what the last of
\* them returned
EnvAfterIllegal(k, g, n, target) ==
    IF k = 0 THEN EnvNew
    ELSE [steps |-> k, num_illegal_moves |-> k, reward |-> illegal_move_reward,
          done |-> is_win(g, n, target) \/ is_lose(g, n), is_valid |-> FALSE]

\* the counters after k steps that were all legal, and what the last of
\* them returned
EnvAfterLegal(k, g, s, n, target) ==
    [steps |-> k, num_illegal_moves |-> 0, reward |-> s,
     done |-> is_win(g, n, target) \/ is_lose(g, n), is_valid |-> TRUE]

\* the boards a test assigns to env.grid.grid
EnvBoards ==
    { zeros(GridSize),
      ArangeBoard(GridSize),
      <<<<2, 4, 2, 4>>, <<4, 2, 4, 2>>, <<2, 4, 2, 4>>, <<4, 2, 4, 4>>>>,
      <<<<0, 0, 0, 0>>, <<0, 0, 0, 0>>, <<0, 0, 0, 0>>, <<0, 0, 1024, 1024>>>> }

InitEnv ==
    /\ grid_size = GridSize
    /\ max_tile = MaxTile
    /\ grid \in EnvBoards
    /\ score = 0
    /\ op = "init"
    /\ ret = FALSE
    /\ before = [grid |-> grid, score |-> score,
                 grid_size |-> GridSize, max_tile |-> MaxTile]
    /\ moves = 0
    /\ spawned = 0
    /\ requested = 0
    /\ CallIdle
    /\ rng = Untracked
    /\ sim = SimIdle
    /\ game = GameNew
    /\ \/ \E k \in {0, max_illegal_moves - 1} :
             env = EnvAfterIllegal(k, grid, GridSize, MaxTile)
       \/ env = EnvAfterLegal(max_steps, grid, score, GridSize, MaxTile)

NextEnv ==
    \/ EnvStep
    \/ EnvReset

SpecEnv == InitEnv /\ [][NextEnv]_vars

(***************************************************************************)
(* A call with its searches followed line by line: an eighth               *)
(* specification.  The searches of a call share nothing, so they are       *)
(* followed one after the other, and sim.obj stands for the copy the       *)
(* search under way was given.  sim is the frame of search_for_one_move:   *)
(* where it is                                                             *)
(* (at), the Grid it works on (obj), current_grid and current_score        *)
(* (current), the passes its two loops have left, search_score, and for    *)
(* the simulation under way the random moves made (steps) and those of     *)
(* them that were valid (legal).  sim.capped tells the two sources apart:  *)
(* src/mcts_bot/monte_carlo.py, whose inner loop is                        *)
(* "for _ in range(self.moves_per_search)", and src/utils/monte_carlo.py,  *)
(* whose inner loop is "while not is_win() and not is_lose()".             *)
(***************************************************************************)
\* line 114 as a test that never holds
sim_over_never(obj) == FALSE

\* line 114 (line 101 of src/utils/monte_carlo.py): the simulation is over
sim_over(obj) ==
    is_win(obj.grid, obj.grid_size, obj.max_tile) \/ is_lose(obj.grid, obj.grid_size)

\* the frame between two searches
SimWaiting(capped) == [at |-> "idle", capped |-> capped]

\* lines 99-109: the search of the next candidate begins on its copy
SimStart ==
    /\ pc = "searching"
    /\ sim.at = "idle"
    /\ \E i \in (0 .. (number_of_moves - 1)) \ delivered :
       /\ ~ asynchronous => i = Cardinality(delivered)
       /\ \E start \in {Deref(grids_lists[i + 1])} :
          \E first \in {call_move(start, i)} :
          IF ~ first.ret
          THEN /\ sim' = [at |-> "return", capped |-> sim.capped, index |-> i,
                          obj |-> [start EXCEPT !.grid = first.grid,
                                                !.score = first.score],
                          current |-> NoSnapshot,
                          searches_left |-> 0, moves_left |-> 0,
                          search_score |-> 0, steps |-> 0, legal |-> 0]
          ELSE \E o \in spawn_one(start, first) :
                  sim' = [at |-> "outer", capped |-> sim.capped, index |-> i,
                          obj |-> o, current |-> Saved(o),
                          searches_left |-> SearchesPerMove, moves_left |-> 0,
                          search_score |-> 0, steps |-> 0, legal |-> 0]
    /\ UNCHANGED <<game, env, grid, score, grid_size, max_tile, op, ret, before, moves,
                   spawned, requested, evaluator>>

\* lines 110-112: a pass of the outer loop begins
SimBegin ==
    /\ sim.at = "outer"
    /\ sim.searches_left > 0
    /\ sim' = [sim EXCEPT !.at = "inner",
                          !.obj = restore(sim.obj, sim.current),
                          !.searches_left = @ - 1,
                          !.moves_left = IF sim.capped THEN MovesPerSearch ELSE 0,
                          !.steps = 0, !.legal = 0]
    /\ UNCHANGED <<game, env, grid, score, grid_size, max_tile, op, ret, before, moves,
                   spawned, requested, evaluator>>

\* line 113 as a loop that draws again after a move that was not valid
pass_of_valid_move(frame, valid) == [frame EXCEPT !.moves_left = IF frame.capped /\ valid THEN @ - 1 ELSE @, !.steps = IF frame.capped THEN @ + 1 ELSE @, !.legal = IF frame.capped /\ valid THEN @ + 1 ELSE @]

\* line 113: "for _ in range(self.moves_per_search)" uses up a pass whether
\* the move drawn was valid or not; the while loop of
\* src/utils/monte_carlo.py has no passes to count
pass_of_loop(frame, valid) == [frame EXCEPT !.moves_left = IF frame.capped THEN @ - 1 ELSE @, !.steps = IF frame.capped THEN @ + 1 ELSE @, !.legal = IF frame.capped /\ valid THEN @ + 1 ELSE @]

\* lines 113-118: a pass of the inner loop that does not break
SimMove ==
    /\ sim.at = "inner"
    /\ sim.capped => sim.moves_left > 0
    /\ ~ sim_over(sim.obj)
    /\ \E move_index \in 0 .. (number_of_moves - 1) :
       \E m \in {call_move(sim.obj, move_index)} :
          IF m.ret
          THEN \E o \in spawn_one(sim.obj, m) :
                  sim' = [pass_of_loop(sim, TRUE) EXCEPT !.obj = o]
          ELSE sim' = [pass_of_loop(sim, FALSE)
                          EXCEPT !.obj = [sim.obj EXCEPT !.grid = m.grid,
                                                         !.score = m.score]]
    /\ UNCHANGED <<game, env, grid, score, grid_size, max_tile, op, ret, before, moves,
                   spawned, requested, evaluator>>

\* lines 114-115 and 119: the inner loop breaks or has no pass left, and
\* search_score += search_grid.score
SimEnd ==
    /\ sim.at = "inner"
    /\ sim_over(sim.obj) \/ (sim.capped /\ sim.moves_left = 0)
    /\ sim' = [sim EXCEPT !.at = "outer",
                          !.search_score = add_score(@, sim.obj)]
    /\ UNCHANGED <<game, env, grid, score, grid_size, max_tile, op, ret, before, moves,
                   spawned, requested, evaluator>>

\* line 121 (or 105) and line 144: the search returns and its value is
\* appended to scores
SimReturn ==
    /\ sim.at \in {"outer", "return"}
    /\ sim.searches_left = 0
    /\ scores' = [scores EXCEPT ![sim.index + 1] = sim.search_score]
    /\ delivered' = delivered \cup {sim.index}
    /\ sim' = SimWaiting(sim.capped)
    /\ UNCHANGED <<game, env, grid, score, grid_size, max_tile, op, ret, before, moves,
                   spawned, requested, pc, asynchronous, grids_lists, clones,
                   chosen, last, generators>>

\* lines 135-142; __call__ of src/utils/monte_carlo.py has the pool only
CallVariant ==
    /\ Call
    /\ ~ sim.capped => asynchronous'

\* the call returns once no search is under way
ReturnIndex ==
    /\ sim.at = "idle"
    /\ Return

\* the Grids the call is followed on
RolloutGrids ==
    { GridObject(b, 20, Len(b), BotMaxTile)
        : b \in { <<<<8, 4>>, <<2, 0>>>>,
                  <<<<4, 2>>, <<2, 4>>>>,
                  <<<<8, 8>>, <<2, 4>>>> } }

InitRollout ==
    /\ \E start \in RolloutGrids :
          /\ grid = start.grid
          /\ score = start.score
          /\ grid_size = start.grid_size
          /\ max_tile = start.max_tile
          /\ before = start
    /\ op = "init"
    /\ ret = FALSE
    /\ moves = MaxMoves
    /\ spawned = MaxSpawned
    /\ requested = 0
    /\ CallIdle
    /\ rng = Untracked
    /\ env = EnvNew
    /\ \E capped \in BOOLEAN : sim = SimWaiting(capped)
    /\ game = GameNew

NextRollout ==
    \/ CallVariant
    \/ SimStart
    \/ SimBegin
    \/ SimMove
    \/ SimEnd
    \/ SimReturn
    \/ ReturnIndex

SpecRollout == InitRollout /\ [][NextRollout]_vars

\* ENABLED <<SimStart>>_vars: a search is still to be started
SimStartEnabled ==
    /\ pc = "searching"
    /\ sim.at = "idle"
    /\ delivered # 0 .. (number_of_moves - 1)

\* ENABLED <<SimMove>>_vars: the inner loop has a pass to make and the pass
\* changes something: it is counted, or some move of the four is valid
SimMoveEnabled ==
    /\ sim.at = "inner"
    /\ sim.capped => sim.moves_left > 0
    /\ ~ sim_over(sim.obj)
    /\ \/ sim.capped
       \/ \E move_index \in 0 .. (number_of_moves - 1) :
             call_move(sim.obj, move_index).ret

\* a process that can take a step takes it, and the random choice of
\* make_random_move is fair: a simulation that can go on by a valid move
\* makes one in the end.  The weak fairness of SimStart and of SimMove is
\* written out with their enabling conditions.
SpecRolloutFair ==
    /\ SpecRollout
    /\ WF_vars(CallVariant \/ SimBegin \/ SimEnd \/ SimReturn \/ ReturnIndex)
    /\ []<>(~ SimStartEnabled) \/ []<><<SimStart>>_vars
    /\ []<>(~ SimMoveEnabled) \/ []<><<SimMove>>_vars

(***************************************************************************)
(* The game loop of the window, src/game.py, class Game: player_move and   *)
(* bot_move, each followed by update_grid.  game holds best_score, whether *)
(* check_game_status found the game over (it then waits for the menu       *)
(* button), and for the last update_grid whether it called generate_twos   *)
(* (asked) and check_game_status (checked).                                *)
(***************************************************************************)
\* np.asarray of a Grid object: the class has __getitem__ but neither
\* __len__ nor __array__, so numpy wraps the object in an array of no
\* dimension
asarray_object(obj) == [shape |-> <<>>, item |-> <<obj.grid>>]

\* np.asarray of an ndarray of n rows and n columns
asarray(g) == [shape |-> <<Len(g), Len(g)>>, item |-> g]

\* np.array_equal(a1, a2): False when the shapes differ, else whether all
\* the elements are equal
array_equal(a1, a2) == a1.shape = a2.shape /\ a1.item = a2.item

\* Game.update_grid(current_grid), lines 197-200: the first argument of
\* array_equal is self.grid, the Grid object; what the call can leave
update_grid(obj, current_grid) ==
    IF ~ array_equal(asarray_object(obj), asarray(current_grid))
    THEN { [grid |-> g, asked |-> TRUE, checked |-> TRUE,
            over |-> is_win(g, obj.grid_size, obj.max_tile) \/ is_lose(g, obj.grid_size)]
           : g \in generate_twos(obj.grid, obj.grid_size, 1) }
    ELSE { [grid |-> obj.grid, asked |-> FALSE, checked |-> FALSE, over |-> FALSE] }

\* max(self.best_score, self.grid.score)
max(a, b) == IF a >= b THEN a ELSE b

\* the keys of config['keys']: a key outside them is ignored (line 226)
ConfigKeys == {UP_KEY, DOWN_KEY, LEFT_KEY, RIGHT_KEY}

\* Game.player_move(event), lines 226-232, for a key of the config
PlayerMove ==
    /\ ~ game.over
    /\ moves < MaxMoves
    /\ \E key \in ConfigKeys :
       \E m \in {move(grid, score, grid_size, key)} :
       \E u \in update_grid([Snapshot EXCEPT !.grid = m.grid, !.score = m.score], grid) :
          /\ grid' = u.grid
          /\ score' = m.score
          /\ ret' = m.ret
          /\ game' = [best_score |-> max(game.best_score, m.score), over |-> u.over,
                      asked |-> u.asked, checked |-> u.checked]
    /\ op' = "player_move"
    /\ before' = Snapshot
    /\ moves' = moves + 1
    /\ UNCHANGED <<env, sim, grid_size, max_tile, spawned, requested, evaluator>>

\* Game.bot_move(bot, all_moves), lines 213-215
BotMove ==
    /\ ~ game.over
    /\ moves < MaxMoves
    /\ \E ind \in call_results(Snapshot, TRUE) :
       \E m \in {call_move(Snapshot, ind)} :
       \E u \in update_grid([Snapshot EXCEPT !.grid = m.grid, !.score = m.score], grid) :
          /\ grid' = u.grid
          /\ score' = m.score
          /\ ret' = m.ret
          /\ game' = [game EXCEPT !.over = u.over, !.asked = u.asked,
                                  !.checked = u.checked]
    /\ op' = "bot_move"
    /\ before' = Snapshot
    /\ moves' = moves + 1
    /\ UNCHANGED <<env, sim, grid_size, max_tile, spawned, requested, evaluator>>

\* boards of a game under way
GameBoards ==
    { <<<<2, 4, 2, 4>>, <<4, 2, 4, 2>>, <<2, 4, 2, 4>>, <<4, 2, 0, 0>>>>,
      <<<<2, 4, 8, 16>>, <<4, 8, 16, 32>>, <<8, 16, 32, 64>>, <<16, 32, 128, 0>>>>,
      <<<<2, 4, 8, 16>>, <<4, 8, 16, 32>>, <<8, 16, 1024, 1024>>, <<16, 32, 64, 128>>>> }

InitGame ==
    /\ grid_size = GridSize
    /\ max_tile = MaxTile
    /\ grid \in GameBoards
    /\ score = 20
    /\ op = "init"
    /\ ret = FALSE
    /\ before = [grid |-> grid, score |-> score,
                 grid_size |-> GridSize, max_tile |-> MaxTile]
    /\ moves = 0
    /\ spawned = 0
    /\ requested = 0
    /\ CallIdle
    /\ rng = Untracked
    /\ env = EnvNew
    /\ sim = SimIdle
    /\ \E best \in {0, 100} : game = [GameNew EXCEPT !.best_score = best]

NextGame ==
    \/ PlayerMove
    \/ BotMove

SpecGame == InitGame /\ [][NextGame]_vars

(***************************************************************************)
(* The public steps of a move, called on their own as the tests of         *)
(* src/test/test_grid.py do: shift_left, shift_right, rotate_left and      *)
(* rotate_right, from any board of InitBoards.  They return nothing.       *)
(***************************************************************************)
\* what a method that only rewrites self.grid leaves
Rewritten(g) == [grid |-> g, score |-> score, ret |-> FALSE]

\* Grid.shift_left()
ShiftLeft ==
    /\ moves < MaxMoves
    /\ Apply("shift_left", Rewritten(shift_left(grid, grid_size)))

\* Grid.shift_right()
ShiftRight ==
    /\ moves < MaxMoves
    /\ Apply("shift_right", Rewritten(shift_right(grid, grid_size)))

\* Grid.rotate_left()
RotateLeft ==
    /\ moves < MaxMoves
    /\ Apply("rotate_left", Rewritten(rotate_left(grid, grid_size)))

\* Grid.rotate_right()
RotateRight ==
    /\ moves < MaxMoves
    /\ Apply("rotate_right", Rewritten(rotate_right(grid, grid_size)))

InitParts ==
    /\ grid_size = GridSize
    /\ max_tile = MaxTile
    /\ grid \in InitBoards
    /\ score \in {0, 20}
    /\ op = "init"
    /\ ret = FALSE
    /\ before = [grid |-> grid, score |-> score,
                 grid_size |-> GridSize, max_tile |-> MaxTile]
    /\ moves = 0
    /\ spawned = 0
    /\ requested = 0
    /\ EvaluatorIdle

NextParts ==
    \/ ShiftLeft
    \/ ShiftRight
    \/ RotateLeft
    \/ RotateRight

SpecParts == InitParts /\ [][NextParts]_vars

(***************************************************************************)
(* A turn of a game late in its course: a specification that starts from   *)
(* a board whose tiles are half the target, or the target itself, and      *)
(* plays as every loop of the repository does: no move once the game is    *)
(* won or lost, one tile spawned after a legal move                        *)
(* (src/mcts_bot/monte_carlo.py:113-118).                                  *)
(***************************************************************************)
\* max_tile of the games played: the smallest target two merged spawns
\* reach, the default of Grid.__init__, and the largest power of two an
\* int16 cell holds
Targets == {4, MaxTile, 2 ^ 14}

\* one row, or one column, of empty cells, tiles of half the target and
\* tiles of the target; nothing else on the board
LateBoards(target) ==
    UNION { { Table(LAMBDA i, j : IF i = r THEN line[j] ELSE 0, GridSize),
              Table(LAMBDA i, j : IF j = r THEN line[i] ELSE 0, GridSize) }
            : <<r, line>> \in Idx(GridSize) \X [Idx(GridSize) -> {0, target \div 2, target}] }

\* lines 114-116: the loop ends on a won or lost board, else a move is made
TurnMove ==
    /\ moves < MaxMoves
    /\ ~ (op \in MoveOps /\ ret)
    /\ ~ (is_win(grid, grid_size, max_tile) \/ is_lose(grid, grid_size))
    /\ \E direction \in Keys \ {"x"} :
          Apply(move_map(direction), move(grid, score, grid_size, direction))

\* lines 117-118: one tile after a valid move
TurnSpawn ==
    /\ op \in MoveOps
    /\ ret
    /\ \E g \in generate_twos(grid, grid_size, 1) : grid' = g
    /\ op' = "generate_twos"
    /\ ret' = FALSE
    /\ before' = Snapshot
    /\ spawned' = spawned + 1
    /\ requested' = 1
    /\ UNCHANGED <<game, env, sim, score, grid_size, max_tile, moves, evaluator>>

InitLate ==
    /\ grid_size = GridSize
    /\ max_tile \in Targets
    /\ grid \in LateBoards(max_tile)
    /\ score = 0
    /\ op = "init"
    /\ ret = FALSE
    /\ before = [grid |-> grid, score |-> score,
                 grid_size |-> GridSize, max_tile |-> max_tile]
    /\ moves = MaxMoves - 1
    /\ spawned = 0
    /\ requested = 0
    /\ EvaluatorIdle

NextLate ==
    \/ TurnMove
    \/ TurnSpawn

SpecLate == InitLate /\ [][NextLate]_vars

(***************************************************************************)
(* What the claims say, stated on boards without the code's operators.     *)
(***************************************************************************)
NonZero(line) == SelectSeq(line, LAMBDA v : v # 0)

\* the nonzero values of a line packed to its front, zeros after them
Pack(line) == NonZero(line) \o [k \in 1 .. (Len(line) - Len(NonZero(line))) |-> 0]

\* one pass from the front: a pair of adjacent equal values becomes their
\* sum and a zero, and the pass resumes after the pair
RECURSIVE MergePass(_)
MergePass(line) ==
    IF Len(line) < 2 THEN line
    ELSE IF line[1] = line[2] /\ line[1] # 0
         THEN <<line[1] + line[2], 0>> \o MergePass(SubSeq(line, 3, Len(line)))
         ELSE <<line[1]>> \o MergePass(Tail(line))

\* the sum of the tiles that pass produces
RECURSIVE MergePassScore(_)
MergePassScore(line) ==
    IF Len(line) < 2 THEN 0
    ELSE IF line[1] = line[2] /\ line[1] # 0
         THEN line[1] + line[2] + MergePassScore(SubSeq(line, 3, Len(line)))
         ELSE MergePassScore(Tail(line))

\* a line moved toward its front
MovedLine(line) == Pack(MergePass(Pack(line)))

Reverse(line) == [k \in 1 .. Len(line) |-> line[Len(line) + 1 - k]] \o <<>>

Column(g, j) == [i \in 1 .. Len(g) |-> g[i][j]] \o <<>>

Transpose(g) == [j \in 1 .. Len(g) |-> Column(g, j)] \o <<>>

\* every row mirrored left to right
Mirror(g) == [i \in 1 .. Len(g) |-> Reverse(g[i])] \o <<>>

\* the board flipped top to bottom
FlipVertical(g) == Reverse(g)

\* the lines a move works on: the rows for left and right, the columns
\* for up and down
Lines(g, name) == IF name \in {"move_left", "move_right"} THEN g ELSE Transpose(g)

\* dst comes from src (both without zeros) by merging disjoint pairs of
\* adjacent equal tiles, every tile in at most one pair
RECURSIVE OnceMerged(_, _)
OnceMerged(src, dst) ==
    IF src = <<>> THEN dst = <<>>
    ELSE /\ dst # <<>>
         /\ \/ dst[1] = src[1] /\ OnceMerged(Tail(src), Tail(dst))
            \/ /\ Len(src) >= 2
               /\ src[1] = src[2]
               /\ dst[1] = 2 * src[1]
               /\ OnceMerged(Tail(Tail(src)), Tail(dst))

\* the sum of the tiles of dst that a merge produced
RECURSIVE MergedSum(_, _)
MergedSum(src, dst) ==
    IF src = <<>> \/ dst = <<>> THEN 0
    ELSE IF dst[1] = src[1] THEN MergedSum(Tail(src), Tail(dst))
         ELSE dst[1] + MergedSum(Tail(Tail(src)), Tail(dst))

IsTile(v) == \E k \in 1 .. 14 : v = 2 ^ k

Called(names) == op \in names

AnyMove == MoveOps \cup {"move"}

\* C1: move_left turns every row into its nonzero values packed left, merged
\* in one left-to-right pass that resumes after each merged pair, and packed
\* left again; the board of the tests becomes
\* [[2,4,0,0],[2,0,0,0],[4,0,0,0],[2,0,0,0]].
C1_MoveLeftRows ==
    Called({"move_left"}) =>
        /\ \A i \in Idx(grid_size) : grid[i] = MovedLine(before.grid[i])
        /\ before.grid = TestGrid =>
              grid = <<<<2, 4, 0, 0>>, <<2, 0, 0, 0>>, <<4, 0, 0, 0>>, <<2, 0, 0, 0>>>>

C1_Witness ==
    /\ op = "move_left"
    /\ before.grid = TestGrid
    /\ grid = <<<<2, 4, 0, 0>>, <<2, 0, 0, 0>>, <<4, 0, 0, 0>>, <<2, 0, 0, 0>>>>

\* C2: in every direction, and for a key that is no direction, the move
\* returns False exactly when the board after it equals the board before it.
C2_FalseIffUnchanged ==
    Called(AnyMove) => ((ret = FALSE) <=> (grid = before.grid))

C2_Witness ==
    /\ op = "move_down"
    /\ ret = FALSE
    /\ grid = before.grid
    /\ grid # zeros(grid_size)

\* C3: in one move in any direction every tile takes part in at most one
\* merge: each line of the result comes from the line before by merging
\* disjoint adjacent pairs, and a line [2,2,2,2] gives two 4s.
C3_MergeOnce ==
    Called(MoveOps) =>
        \A k \in Idx(grid_size) :
            LET src == Lines(before.grid, op)[k]
                dst == Lines(grid, op)[k]
            IN  /\ OnceMerged(NonZero(src), NonZero(dst))
                /\ src = <<2, 2, 2, 2>> => NonZero(dst) = <<4, 4>>

C3_Witness ==
    /\ op = "move_right"
    /\ \E k \in Idx(grid_size) :
          /\ before.grid[k] = <<2, 2, 2, 2>>
          /\ NonZero(grid[k]) = <<4, 4>>

\* C4: move_right gives the board, the score and the validity that
\* mirroring every row, move_left and mirroring back give.
C4_RightIsMirroredLeft ==
    Called({"move_right"}) =>
        LET m == move_left(Mirror(before.grid), before.score, grid_size)
        IN  /\ grid = Mirror(m.grid)
            /\ score = m.score
            /\ ret = m.ret

\* C5: move_up acts on every column, read from the top, as move_left acts
\* on a row, with the score raised by the tiles the merges produce, and it
\* equals transposing, move_left and transposing back; the
\* board of the tests becomes [[2,4,2,4],[0,0,0,2],[0,0,0,0],[0,0,0,0]].
C5_UpIsLeftOnColumns ==
    Called({"move_up"}) =>
        /\ \A j \in Idx(grid_size) :
              Column(grid, j) = MovedLine(Column(before.grid, j))
        /\ score - before.score =
              SeqSum([j \in Idx(grid_size) |->
                         MergePassScore(Pack(Column(before.grid, j)))] \o <<>>)
        /\ LET m == move_left(Transpose(before.grid), before.score, grid_size)
           IN  /\ score = m.score
               /\ grid = Transpose(m.grid)
        /\ before.grid = TestGrid =>
              grid = <<<<2, 4, 2, 4>>, <<0, 0, 0, 2>>, <<0, 0, 0, 0>>, <<0, 0, 0, 0>>>>

C5_Witness ==
    /\ op = "move_up"
    /\ before.grid = TestGrid
    /\ grid = <<<<2, 4, 2, 4>>, <<0, 0, 0, 2>>, <<0, 0, 0, 0>>, <<0, 0, 0, 0>>>>
    /\ score = before.score + 4

\* C6: move_down gives the board, the score and the validity that flipping
\* the board top to bottom, move_up and flipping back give.
C6_DownIsFlippedUp ==
    Called({"move_down"}) =>
        LET m == move_up(FlipVertical(before.grid), before.score, grid_size)
        IN  /\ grid = FlipVertical(m.grid)
            /\ score = m.score
            /\ ret = m.ret

\* C7: a move in any direction raises the score by the sum of the tiles its
\* merges produced (2v for each merged pair of v) and by nothing else.
C7_ScoreIsMergedTiles ==
    Called(AnyMove) =>
        score - before.score =
            SeqSum([k \in Idx(grid_size) |->
                       MergedSum(NonZero(Lines(before.grid, op)[k]),
                                 NonZero(Lines(grid, op)[k]))] \o <<>>)

C7_Witness ==
    /\ op \in MoveOps
    /\ before.score = 20
    /\ score = 32
    /\ \E k \in Idx(grid_size) : NonZero(Lines(grid, op)[k]) \in {<<4, 8>>, <<8, 4>>}

\* C8: between two resets the score never decreases: no move and no spawn
\* leaves a score below the score it found.
C8_ScoreNeverDecreases ==
    op # "reset" => score >= before.score

C8_Witness ==
    /\ op \in MoveOps
    /\ before.score > 0
    /\ score > before.score

\* C9: in every state reached from the empty board by generate_twos and
\* moves, every nonzero cell holds a power of two that is at least 2.
C9_CellsArePowersOfTwo ==
    \A i \in Idx(grid_size) : \A j \in Idx(grid_size) :
        grid[i][j] # 0 => IsTile(grid[i][j])

C9_Witness ==
    /\ op \in MoveOps
    /\ \E i \in Idx(grid_size) : \E j \in Idx(grid_size) : grid[i][j] = 8

\* C10: a move that returns False changes nothing: the board, the score,
\* the size and the target are what they were before the call.
C10_FalseMoveIsNoOp ==
    (Called(AnyMove) /\ ret = FALSE) =>
        /\ grid = before.grid
        /\ score = before.score
        /\ grid_size = before.grid_size
        /\ max_tile = before.max_tile

C10_Witness ==
    /\ op = "move_right"
    /\ ret = FALSE
    /\ score = 20
    /\ \E i \in Idx(grid_size) : grid[i][grid_size] = 4

\* the number of tiles and of empty cells of a board
TileCount(g) == Len(NonZero(Flat(g)))

EmptyCount(g) == Len(Flat(g)) - TileCount(g)

\* the cells in which two boards differ
ChangedCells(g, h) == {c \in Cells(Len(g)) : g[c[1]][c[2]] # h[c[1]][c[2]]}

Neighbours(c, d) ==
    \/ c[1] = d[1] /\ (c[2] - d[2] = 1 \/ d[2] - c[2] = 1)
    \/ c[2] = d[2] /\ (c[1] - d[1] = 1 \/ d[1] - c[1] = 1)

NoEqualNeighbours(g) ==
    \A c \in Cells(Len(g)) : \A d \in Cells(Len(g)) :
        Neighbours(c, d) => g[c[1]][c[2]] # g[d[1]][d[2]]

Min(a, b) == IF a < b THEN a ELSE b

\* C11, as stated: generate_twos(n) on a board with e empty cells raises
\* the number of tiles by exactly min(n, e).
C11_SpawnCountIsMin ==
    Called({"generate_twos"}) =>
        TileCount(grid) - TileCount(before.grid) =
            Min(requested, EmptyCount(before.grid))

\* C11, amended: generate_twos(n) on a board with e empty cells raises the
\* number of tiles by exactly n when n <= e and by 0 when n > e.
C11_SpawnCountAllOrNothing ==
    Called({"generate_twos"}) =>
        TileCount(grid) - TileCount(before.grid) =
            IF requested <= EmptyCount(before.grid) THEN requested ELSE 0

C11_Witness ==
    /\ op = "generate_twos"
    /\ requested = 2
    /\ EmptyCount(before.grid) = 1
    /\ TileCount(grid) = TileCount(before.grid)

\* C12: when more tiles are asked than there are empty cells (a full board
\* included) generate_twos completes and leaves board and score as they
\* were.
C12_TooManyIsNoOp ==
    (Called({"generate_twos"}) /\ requested > EmptyCount(before.grid)) =>
        /\ grid = before.grid
        /\ score = before.score

C12_Witness ==
    /\ op = "generate_twos"
    /\ requested = 1
    /\ EmptyCount(before.grid) = 0
    /\ grid = before.grid
    /\ score = 20

\* C13: generate_twos(n) changes exactly n distinct cells, all empty before
\* the call, each to 2 or 4; a cell that held a tile keeps it; the score is
\* not touched.
C13_SpawnWritesEmptyCells ==
    Called({"generate_twos"}) =>
        LET written == ChangedCells(before.grid, grid)
        IN  /\ requested <= EmptyCount(before.grid) =>
                  Cardinality(written) = requested
            /\ \A c \in written :
                  /\ before.grid[c[1]][c[2]] = 0
                  /\ grid[c[1]][c[2]] \in {2, 4}
            /\ score = before.score

C13_Witness ==
    /\ op = "generate_twos"
    /\ requested = 2
    /\ TileCount(before.grid) > 0
    /\ score > 0
    /\ \E c \in ChangedCells(before.grid, grid) : grid[c[1]][c[2]] = 4
    /\ Cardinality(ChangedCells(before.grid, grid)) = 2

\* C14: generate_twos(2) on the empty board leaves exactly two tiles and
\* both are 2.
C14_FirstSpawnIsTwoTwos ==
    (Called({"generate_twos"}) /\ requested = 2 /\ TileCount(before.grid) = 0) =>
        NonZero(Flat(grid)) = <<2, 2>>

C14_Witness ==
    /\ op = "generate_twos"
    /\ requested = 2
    /\ before.grid = zeros(grid_size)
    /\ grid[1][1] = 2
    /\ grid[grid_size][grid_size] = 2

\* C15: is_lose is true exactly when the board has no empty cell and no two
\* cells next to each other, in a row or in a column, hold the same value;
\* the empty board is not lost.
C15_LoseIffFullAndStuck ==
    Called({"is_lose"}) =>
        /\ ret = (EmptyCount(grid) = 0 /\ NoEqualNeighbours(grid))
        /\ TileCount(grid) = 0 => ret = FALSE

C15_Witness ==
    /\ op = "is_lose"
    /\ ret = TRUE
    /\ grid = ArangeBoard(grid_size)

\* C16: on a board with at least one tile is_lose is true exactly when
\* move up, down, left and right all return False; the full board 1..16 is
\* lost and the four moves on it return False.
C16_LoseIffNoMove ==
    Called({"is_lose"}) =>
        LET stuck == \A direction \in {UP_KEY, DOWN_KEY, LEFT_KEY, RIGHT_KEY} :
                        move(grid, score, grid_size, direction).ret = FALSE
        IN  /\ TileCount(grid) > 0 => (ret = stuck)
            /\ grid = ArangeBoard(grid_size) => (ret /\ stuck)

C16_Witness ==
    /\ op = "is_lose"
    /\ ret = TRUE
    /\ grid = StairBoard(grid_size)
    /\ \A direction \in {UP_KEY, DOWN_KEY, LEFT_KEY, RIGHT_KEY} :
          move(grid, score, grid_size, direction).ret = FALSE

\* C17: is_win is true exactly when some cell holds the target max_tile.
C17_WinIffTargetOnBoard ==
    Called({"is_win"}) =>
        ret = (\E c \in Cells(grid_size) : grid[c[1]][c[2]] = max_tile)

C17_Witness ==
    /\ op = "is_win"
    /\ ret = TRUE
    /\ grid[grid_size][grid_size] = max_tile
    /\ TileCount(grid) = 1

\* C18: a call of the evaluator, sequential or through the pool, leaves the
\* Grid of the caller as it was: while the searches run and after the call
\* has returned, board and score are those the call found.
C18_EvaluatorKeepsLiveGrid ==
    pc \in {"searching", "returned"} =>
        /\ grid = before.grid
        /\ score = before.score

C18_Witness ==
    /\ pc = "returned"
    /\ ~ asynchronous
    /\ last.changed
    /\ last.spawns > 1
    /\ last.ret > 2 * before.score
    /\ grid = before.grid
    /\ score = before.score

\* C19: the index returned is that of a candidate whose aggregate is the
\* largest of the four, and the lowest such index: no candidate before it
\* reaches that value; four equal aggregates give index 0.
C19_ReturnsFirstMaximum ==
    pc = "returned" =>
        /\ \A j \in 1 .. number_of_moves : scores[j] <= scores[chosen + 1]
        /\ \A j \in 1 .. chosen : scores[j] < scores[chosen + 1]
        /\ (\A j \in 1 .. number_of_moves : scores[j] = scores[1]) => chosen = 0

C19_Witness ==
    /\ pc = "returned"
    /\ chosen = 2
    /\ scores[3] > 0
    /\ scores[4] = scores[3]

\* C20: a candidate whose first move is illegal on its copy of the state
\* gets the aggregate 0, and its search spawns no tile and runs no
\* simulation step: the copy is left as it was.
C20_IllegalCandidateIsZero ==
    (pc = "searching" /\ delivered # {}
        /\ ~ call_move(before, last.index).ret) =>
        /\ last.valid = FALSE
        /\ last.ret = 0
        /\ scores[last.index + 1] = 0
        /\ last.spawns = 0
        /\ last.steps = 0
        /\ last.changed = FALSE

C20_Witness ==
    /\ pc = "searching"
    /\ delivered # {}
    /\ last.valid = FALSE
    /\ last.ret = 0
    /\ last.spawns = 0
    /\ before.score = 20
    /\ \E j \in 1 .. number_of_moves : scores[j] > 0

\* a search has delivered its result and it is the one recorded in last
Searched == pc \in {"searching", "returned"} /\ delivered # {}

\* C21: for a legal candidate every one of the K simulations starts from
\* the same saved state, the board and score right after the candidate move
\* and one spawn, whatever the simulations before it did, and the aggregate
\* is the sum of the K final scores.
C21_SameSnapshotAndSum ==
    (Searched /\ last.valid) =>
        LET first == call_move(before, last.index)
        IN  /\ last.snapshot.score = first.score
            /\ Cardinality(ChangedCells(first.grid, last.snapshot.grid)) = 1
            /\ \A c \in ChangedCells(first.grid, last.snapshot.grid) :
                  /\ first.grid[c[1]][c[2]] = 0
                  /\ last.snapshot.grid[c[1]][c[2]] \in {2, 4}
            /\ Len(last.finals) = SearchesPerMove
            /\ last.starts = {last.snapshot}
            /\ last.ret = SeqSum(last.finals)

C21_Witness ==
    /\ Searched
    /\ last.valid
    /\ last.starts = {last.snapshot}
    /\ last.finals[1] > last.snapshot.score
    /\ last.finals[2] = last.snapshot.score
    /\ last.ret = last.finals[1] + last.finals[2]

\* C22: for the same Grid and the same number of searches the indices the
\* call can return through the pool are those it can return sequentially:
\* the two sets are equal, and in either mode every aggregate a call ends
\* with is one the search of that candidate can give on the Grid as the
\* call found it.
C22_SameResultsInBothModes ==
    /\ (pc = "searching" /\ delivered = {}) =>
          call_results(before, TRUE) = call_results(before, FALSE)
    /\ pc = "returned" =>
          \A i \in 0 .. (number_of_moves - 1) :
              \E out \in search_for_one_move(before, i, SearchesPerMove, MovesPerSearch) :
                  out.ret = scores[i + 1]

C22_Witness ==
    /\ pc = "returned"
    /\ asynchronous
    /\ chosen = 3
    /\ Cardinality(call_results(before, FALSE)) > 1
    /\ chosen \in call_results(before, FALSE)

\* the candidates whose search has not delivered yet
Waiting == (0 .. (number_of_moves - 1)) \ delivered

\* C23: the four candidates share no state that one of them writes: no two
\* entries of grids_lists name the same object and none names the Grid of
\* the caller, and in every order of the searches the object of a candidate
\* still to be searched is as the call found it, whatever the searches
\* before it moved and spawned.
C23_CandidatesShareNothing ==
    pc = "searching" =>
        /\ \A i \in 1 .. number_of_moves : \A j \in 1 .. number_of_moves :
              (i # j) => (grids_lists[i] # grids_lists[j] /\ grids_lists[i] # 0)
        /\ \A i \in Waiting : Deref(grids_lists[i + 1]) = before

C23_Witness ==
    /\ pc = "searching"
    /\ Cardinality(delivered) = 2
    /\ last.changed
    /\ last.spawns > 1
    /\ \A i \in Waiting : Deref(grids_lists[i + 1]) = before

\* C24, as stated: through the pool every search draws from a generator
\* seeded on its own: no two searches begin with one and the same state of
\* a generator, the state the caller had when it made the call.
C24_UnitsSeededApart ==
    (pc \in {"searching", "returned"} /\ asynchronous /\ rng # Untracked) =>
        \A i \in delivered : \A j \in delivered :
            (i # j) => ~ (/\ rng_start[i + 1] = rng_start[j + 1]
                          /\ rng_start[i + 1] = rng)

\* C25, as stated: a game that starts from the empty board with two spawned
\* tiles and goes on with the move the evaluator returns and one spawn,
\* until is_win or is_lose, ends with is_win true and is_lose false.
C25_BotGameEndsWon ==
    op = "game_over" =>
        /\ is_win(grid, grid_size, max_tile)
        /\ ~ is_lose(grid, grid_size)

\* C26: a step of the environment whose move is illegal leaves board and
\* score as they were, returns the reward 0.0 and info['is_valid'] False,
\* raises num_illegal_moves by exactly one, and returns done True when the
\* board is a lost one.
C26_IllegalStep ==
    [][(op' = "step" /\ ~ env'.is_valid) =>
          /\ grid' = grid
          /\ score' = score
          /\ env'.reward = 0
          /\ env'.num_illegal_moves = env.num_illegal_moves + 1
          /\ (EmptyCount(grid') = 0 /\ NoEqualNeighbours(grid')) => env'.done]_vars

C26_Witness ==
    /\ op = "step"
    /\ ~ env.is_valid
    /\ env.done
    /\ env.reward = 0
    /\ env.num_illegal_moves = 1
    /\ grid = ArangeBoard(grid_size)
    /\ before.grid = grid

\* the lines of a board read from the edge a move goes to: rows for left,
\* rows reversed for right, columns for up, columns reversed for down
TowardEdge(g, name) ==
    IF name \in {"move_left", "move_up"} THEN Lines(g, name)
    ELSE Mirror(Lines(g, name))

\* C27, as stated: after a move in any direction every row (left, right)
\* or column (up, down) is packed against the edge of that direction: no
\* empty cell lies between a tile and the edge, no merge leaves a gap.
C27_NoGapAfterMove ==
    Called(MoveOps) =>
        \A k \in Idx(grid_size) : TowardEdge(grid, op)[k] = Pack(TowardEdge(grid, op)[k])

\* a Grid on which a simulation stops: the target is on the board, or the
\* board is full and no two neighbours are equal
Terminal(obj) ==
    \/ \E c \in Cells(obj.grid_size) : obj.grid[c[1]][c[2]] = obj.max_tile
    \/ EmptyCount(obj.grid) = 0 /\ NoEqualNeighbours(obj.grid)

\* a simulation of the capped search has just ended
CappedSimulationEnded ==
    /\ sim.at = "outer"
    /\ sim.capped
    /\ sim.searches_left < SearchesPerMove

\* C28, as stated: in the capped rollout only valid moves count toward
\* moves_per_search, so a simulation that ends neither won nor lost has
\* made exactly moves_per_search valid moves.
C28_OnlyLegalMovesCount ==
    (CappedSimulationEnded /\ ~ Terminal(sim.obj)) => sim.legal = MovesPerSearch

\* C28, amended: in the capped rollout every random move, valid or not,
\* uses up one pass of the inner loop: the moves made and the passes left
\* add up to moves_per_search, the valid moves are at most the moves made,
\* and a simulation that ends neither won nor lost has made exactly
\* moves_per_search random moves.
C28_EveryMoveUsesAPass ==
    (sim.at \in {"inner", "outer"} /\ sim.capped /\ sim.searches_left < SearchesPerMove) =>
        /\ sim.steps + sim.moves_left = MovesPerSearch
        /\ sim.legal <= sim.steps
        /\ (sim.at = "outer" /\ ~ Terminal(sim.obj)) => sim.steps = MovesPerSearch

C28_Witness ==
    /\ CappedSimulationEnded
    /\ ~ Terminal(sim.obj)
    /\ sim.steps = MovesPerSearch
    /\ sim.legal < MovesPerSearch

C30_EvaluationTerminates ==
    /\ \A i \in 0 .. (number_of_moves - 1) :
          (sim.at # "idle" /\ sim.index = i) ~> (sim.at = "idle" /\ i \in delivered)
    /\ (pc = "searching") ~> (pc = "returned" /\ chosen \in 0 .. (number_of_moves - 1))

\* a call of the uncapped variant has returned after a simulation that
\* went on to the end of the game
C30_Witness ==
    /\ pc = "returned"
    /\ ~ sim.capped
    /\ chosen \in 0 .. (number_of_moves - 1)
    /\ \E i \in 1 .. number_of_moves : scores[i] > SearchesPerMove * before.score

\* C31: in a call through the pool there are four tasks, one for each of
\* the indices 0..3; a task delivers once, in any order, and what it
\* delivers is stored at its own index and is the result of the search
\* that began with the move of that index, the other entries of scores
\* staying as they were; the call returns only when all four have
\* delivered.
C31_FourUnitsJoinedInOrder ==
    [][(pc = "searching" /\ asynchronous) =>
          /\ Len(grids_lists) = number_of_moves
          /\ pc' = "returned" => delivered = 0 .. (number_of_moves - 1)
          /\ chosen' # chosen => delivered = 0 .. (number_of_moves - 1)
          /\ delivered' # delivered =>
                \E i \in (0 .. (number_of_moves - 1)) \ delivered :
                   /\ delivered' = delivered \cup {i}
                   /\ last'.index = i
                   /\ last'.valid = call_move(before, i).ret
                   /\ scores' = [scores EXCEPT ![i + 1] = last'.ret]]_vars

\* the task of index 3 was the first to finish and its total is at index 3
C31_Witness ==
    /\ pc = "searching"
    /\ asynchronous
    /\ delivered = {number_of_moves - 1}
    /\ last.index = number_of_moves - 1
    /\ last.ret > 0
    /\ scores = <<0, 0, 0, last.ret>>

\* C32, as stated: after player_move or bot_move a tile is spawned and the
\* status of the game is checked only when the move changed the board: a
\* move that returned False leaves the board as it was.
C32_SpawnOnlyAfterChange ==
    (Called({"player_move", "bot_move"}) /\ ~ ret) =>
        /\ ~ game.asked
        /\ ~ game.checked
        /\ grid = before.grid

\* C33, as stated: a step of the environment whose move was valid is
\* followed by the spawn of one tile: the board the step leaves is the
\* board of the move with one more tile, a 2 or a 4, in a cell the move
\* left empty.
C33_LegalStepSpawns ==
    (op = "step" /\ env.is_valid) =>
        \E key \in Keys :
           \E m \in {move(before.grid, before.score, grid_size, key)} :
              /\ m.ret
              /\ grid # m.grid
              /\ grid \in generate_twos(m.grid, grid_size, 1)

\* C34, as stated: a step taken when the counter of steps is above
\* max_steps reports done = True, whether its move was legal or not.
C34_DoneAfterMaxSteps ==
    (op = "step" /\ env.steps > max_steps) => env.done

\* C35: rotate_left followed by rotate_right gives back the board
\* rotate_left was called on, cell for cell, and the score it was called
\* with.
C35_RotationRoundTrip ==
    [][(op = "rotate_left" /\ op' = "rotate_right") =>
          /\ grid' = before.grid
          /\ score' = before.score]_vars

\* the board of the tests has been rotated left, which changed it, and
\* then right
C35_Witness ==
    /\ op = "rotate_right"
    /\ moves = 2
    /\ grid = TestGrid
    /\ before.grid = <<<<4, 0, 0, 2>>, <<0, 0, 2, 0>>, <<0, 2, 2, 0>>, <<2, 0, 0, 0>>>>

\* C36: shift_left and shift_right keep the values of every row that are
\* not zero, in their order, and push them against the left or the right
\* edge of the row; the same shift called again changes nothing.
C36_ShiftLosslessIdempotent ==
    [][/\ op' = "shift_left" =>
             \A i \in Idx(grid_size) : grid'[i] = Pack(grid[i])
       /\ op' = "shift_right" =>
             \A i \in Idx(grid_size) : grid'[i] = Reverse(Pack(Reverse(grid[i])))
       /\ (op' \in {"shift_left", "shift_right"} /\ op = op') =>
             grid' = grid]_vars

\* the board of the tests has been shifted left, which changed it, and
\* shifted left again
C36_Witness ==
    /\ op = "shift_left"
    /\ moves = 2
    /\ grid = before.grid
    /\ grid = <<<<2, 4, 0, 0>>, <<2, 0, 0, 0>>, <<2, 2, 0, 0>>, <<2, 0, 0, 0>>>>

\* some move of the four is valid on the Grid the call was made on
SomeMoveLegal == \E i \in 0 .. (number_of_moves - 1) : call_move(before, i).ret

\* C37, as stated: when at least one of the four moves is legal on the
\* state, the index the call returns is that of a legal move.
C37_ReturnsLegalMove ==
    (pc = "returned" /\ SomeMoveLegal) => call_move(before, chosen).ret

\* C37, amended: when at least one of the four moves is legal and the score
\* of the state is above 0, the index returned is that of a legal move; an
\* illegal move is returned while a legal one exists only when the score
\* is 0 and every total is 0, and it is then index 0.  The total of an
\* illegal candidate is 0 and that of a legal one is at least
\* searches_per_move times the score of the state.
C37_ReturnsLegalWhenScored ==
    /\ pc \in {"searching", "returned"} =>
          \A i \in delivered :
              IF call_move(before, i).ret
              THEN scores[i + 1] >= SearchesPerMove * before.score
              ELSE scores[i + 1] = 0
    /\ (pc = "returned" /\ SomeMoveLegal) =>
          /\ before.score > 0 => call_move(before, chosen).ret
          /\ ~ call_move(before, chosen).ret =>
                /\ chosen = 0
                /\ before.score = 0
                /\ \A j \in 1 .. number_of_moves : scores[j] = 0

\* a call on a Grid with a positive score, where up (index 0) is illegal
\* and another move is legal, has returned the index of a legal move
C37_Witness ==
    /\ pc = "returned"
    /\ before.score > 0
    /\ ~ call_move(before, 0).ret
    /\ chosen > 0
    /\ call_move(before, chosen).ret

\* C38: right after a move that returned True the board has an empty
\* cell, so generate_twos(1) called next places one tile: every board it
\* can leave has exactly one tile more.
C38_EmptyCellAfterLegalMove ==
    (Called(MoveOps) /\ ret) =>
        /\ EmptyCount(grid) >= 1
        /\ \A g \in generate_twos(grid, grid_size, 1) :
              TileCount(g) = TileCount(grid) + 1

\* a full board on which a move merged tiles
C38_Witness ==
    /\ Called(MoveOps)
    /\ ret
    /\ EmptyCount(before.grid) = 0
    /\ EmptyCount(grid) >= 1

BoardSum(g) == SeqSum(Flat(g))

\* C39: a move in any direction leaves the sum of the cells as it was,
\* and one spawned tile raises it by 2 or by 4.
C39_SumKeptThenRaised ==
    /\ Called(MoveOps) => BoardSum(grid) = BoardSum(before.grid)
    /\ (Called({"generate_twos"}) /\ requested = 1 /\ grid # before.grid) =>
          BoardSum(grid) - BoardSum(before.grid) \in {2, 4}

\* two tiles of 8192 were merged and a tile was spawned after it
C39_Witness ==
    /\ Called({"generate_twos"})
    /\ requested = 1
    /\ \E i \in Idx(grid_size) : \E j \in Idx(grid_size) : grid[i][j] = 2 ^ 14
    /\ TileCount(grid) = 2
    /\ BoardSum(grid) - BoardSum(before.grid) = 4

\* C40: with a target of 2^k <= 16384 and no move on a won board, every
\* cell stays between 0 and the target.
C40_CellsWithinTarget ==
    \A i \in Idx(grid_size) : \A j \in Idx(grid_size) :
        /\ grid[i][j] >= 0
        /\ grid[i][j] <= max_tile

\* a move doubled 8192 into the target 16384
C40_Witness ==
    /\ Called(MoveOps)
    /\ ret
    /\ max_tile = 2 ^ 14
    /\ ~ is_win(before.grid, grid_size, max_tile)
    /\ \E i \in Idx(grid_size) : \E j \in Idx(grid_size) : grid[i][j] = max_tile

====
